---- MODULE Spec2Model ----
(***************************************************************************)
(* Infoflow channel adapter: mention parsing, per-group reply-mode gating, *)
(* the in-memory follow-up tracker and the chunked reply dispatcher.       *)
(*                                                                         *)
(* Strings are sequences of one-character strings, so that toLowerCase,    *)
(* String(number), regular-expression tests and chunking are computed and  *)
(* not assumed.  An optional value (x?: T) is a sequence of length 0       *)
(* (undefined) or 1 (the value).                                           *)
(***************************************************************************)
EXTENDS Integers, Sequences, FiniteSets, TLC

----------------------------------------------------------------------------
(* Optional values *)

Undef == <<>>
Some(x) == <<x>>
IsDef(o) == Len(o) = 1
Val(o) == o[1]
\* a ?? b
Coalesce(a, b) == IF IsDef(a) THEN a ELSE b

----------------------------------------------------------------------------
(* Strings *)

UpperCase == <<"A","B","C","D","E","F","G","H","I","J","K","L","M",
               "N","O","P","Q","R","S","T","U","V","W","X","Y","Z">>
LowerCase == <<"a","b","c","d","e","f","g","h","i","j","k","l","m",
               "n","o","p","q","r","s","t","u","v","w","x","y","z">>
Digits == <<"0","1","2","3","4","5","6","7","8","9">>

IndexIn(c, seq) == IF \E i \in 1..Len(seq) : seq[i] = c
                   THEN CHOOSE i \in 1..Len(seq) : seq[i] = c
                   ELSE 0

IsDigit(c) == IndexIn(c, Digits) # 0
IsSpace(c) == c \in {" ", "\n", "\t"}

toLowerChar(c) == IF IndexIn(c, UpperCase) # 0 THEN LowerCase[IndexIn(c, UpperCase)] ELSE c
\* String.prototype.toLowerCase
toLowerCase(s) == [i \in 1..Len(s) |-> toLowerChar(s[i])]

\* a blank test that only the empty string passes
IsBlank_EmptyOnly(s) == Len(s) = 0

\* String.prototype.trim() is empty
IsBlank(s) == \A i \in 1..Len(s) : IsSpace(s[i])

\* String(n) for a non-negative integer n
RECURSIVE String(_)
String(n) == IF n < 10 THEN <<Digits[n + 1]>>
             ELSE String(n \div 10) \o <<Digits[(n % 10) + 1]>>

RECURSIVE DigitsValue(_)
DigitsValue(s) == IF Len(s) = 0 THEN 0
                  ELSE 10 * DigitsValue(SubSeq(s, 1, Len(s) - 1)) + (IndexIn(s[Len(s)], Digits) - 1)

RECURSIVE TrimLeft(_)
TrimLeft(s) == IF Len(s) > 0 /\ IsSpace(s[1]) THEN TrimLeft(Tail(s)) ELSE s
RECURSIVE TrimRight(_)
TrimRight(s) == IF Len(s) > 0 /\ IsSpace(s[Len(s)]) THEN TrimRight(SubSeq(s, 1, Len(s) - 1)) ELSE s
trim(s) == TrimRight(TrimLeft(s))

\* Number(s), then Number.isFinite(num) ? num : null, as an optional number.
\* Computed for strings of decimal digits with surrounding white space (the
\* empty string is 0); any other character makes the string non-numeric.
\* Exponent, hexadecimal, signed and fractional literals are outside the
\* strings of this model.
NumberOrNull(s) ==
    LET t == trim(s) IN
    IF \A i \in 1..Len(t) : IsDigit(t[i]) THEN Some(DigitsValue(t)) ELSE Undef

\* Array.prototype.indexOf, 1-based, 0 for "not found" (-1 in the source)
indexOf(arr, x) == IndexIn(x, arr)
includes(arr, x) == IndexIn(x, arr) # 0

RECURSIVE join(_, _)
join(arr, sep) == IF Len(arr) = 0 THEN <<>>
                  ELSE IF Len(arr) = 1 THEN arr[1]
                  ELSE arr[1] \o sep \o join(Tail(arr), sep)

----------------------------------------------------------------------------
(* Inbound body items (InfoflowBodyItem): type is "TEXT", "AT" or "LINK";  *)
(* name and userid are optional strings, robotid an optional number.       *)

Item(type, name, userid, robotid) ==
    [type |-> type, name |-> name, userid |-> userid, robotid |-> robotid]
TextItem == Item("TEXT", Undef, Undef, Undef)
LinkItem == Item("LINK", Undef, Undef, Undef)
AtName(n) == Item("AT", Some(n), Undef, Undef)
AtUser(n, u) == Item("AT", n, Some(u), Undef)
AtRobot(n, r) == Item("AT", n, Undef, Some(r))

\* a string is truthy iff it is non-empty; an optional string iff defined and non-empty
Truthy(o) == IsDef(o) /\ Len(Val(o)) > 0

RECURSIVE checkBotMentionedFrom(_, _, _)
checkBotMentionedFrom(bodyItems, normalizedRobotName, i) ==
    IF i > Len(bodyItems) THEN FALSE
    ELSE IF bodyItems[i].type # "AT" THEN checkBotMentionedFrom(bodyItems, normalizedRobotName, i + 1)
    ELSE IF IsDef(bodyItems[i].name)
            /\ toLowerCase(Val(bodyItems[i].name)) = normalizedRobotName THEN TRUE
    ELSE checkBotMentionedFrom(bodyItems, normalizedRobotName, i + 1)

\* the comparison without lower-casing robotName
checkBotMentioned_RawRobotName(bodyItems, robotName) ==
    IF ~Truthy(robotName) THEN FALSE
    ELSE checkBotMentionedFrom(bodyItems, Val(robotName), 1)

\* robotName is an optional string
checkBotMentioned(bodyItems, robotName) ==
    IF ~Truthy(robotName) THEN FALSE
    ELSE checkBotMentionedFrom(bodyItems, toLowerCase(Val(robotName)), 1)

\* numericIds.indexOf(robotid): entries are optional numbers, null never matches
RECURSIVE IndexOfNumber(_, _, _)
IndexOfNumber(numericIds, n, i) ==
    IF i > Len(numericIds) THEN 0
    ELSE IF IsDef(numericIds[i]) /\ Val(numericIds[i]) = n THEN i
    ELSE IndexOfNumber(numericIds, n, i + 1)

\* the scan with the display name tried before userid and robotid
checkWatchMentionedFrom_NameFirst(bodyItems, watchMentions, normalizedIds, numericIds, i) ==
    LET byUser(item) == IF Truthy(item.userid)
                        THEN indexOf(normalizedIds, toLowerCase(Val(item.userid))) ELSE 0
        byRobot(item) == IF IsDef(item.robotid)
                         THEN IndexOfNumber(numericIds, Val(item.robotid), 1) ELSE 0
        byName(item) == IF Truthy(item.name)
                        THEN indexOf(normalizedIds, toLowerCase(Val(item.name))) ELSE 0
        hits == {j \in i..Len(bodyItems) :
                    /\ bodyItems[j].type = "AT"
                    /\ byUser(bodyItems[j]) + byRobot(bodyItems[j]) + byName(bodyItems[j]) > 0}
    IN IF hits = {} THEN Undef
       ELSE LET item == bodyItems[CHOOSE j \in hits : \A k \in hits : j <= k]
            IN IF byName(item) # 0 THEN Some(watchMentions[byName(item)])
               ELSE IF byUser(item) # 0 THEN Some(watchMentions[byUser(item)])
               ELSE Some(watchMentions[byRobot(item)])

RECURSIVE checkWatchMentionedFrom(_, _, _, _, _)
checkWatchMentionedFrom(bodyItems, watchMentions, normalizedIds, numericIds, i) ==
    IF i > Len(bodyItems) THEN Undef
    ELSE LET item == bodyItems[i]
             byUser == IF Truthy(item.userid)
                       THEN indexOf(normalizedIds, toLowerCase(Val(item.userid))) ELSE 0
             byRobot == IF IsDef(item.robotid)
                        THEN IndexOfNumber(numericIds, Val(item.robotid), 1) ELSE 0
             byName == IF Truthy(item.name)
                       THEN indexOf(normalizedIds, toLowerCase(Val(item.name))) ELSE 0
         IN IF item.type # "AT"
            THEN checkWatchMentionedFrom(bodyItems, watchMentions, normalizedIds, numericIds, i + 1)
            ELSE IF byUser # 0 THEN Some(watchMentions[byUser])
            ELSE IF byRobot # 0 THEN Some(watchMentions[byRobot])
            ELSE IF byName # 0 THEN Some(watchMentions[byName])
            ELSE checkWatchMentionedFrom(bodyItems, watchMentions, normalizedIds, numericIds, i + 1)

\* the first watch-list entry, in watch-list order, that the body mentions
checkWatchMentioned_WatchOrder(bodyItems, watchMentions) ==
    LET found == {k \in 1..Len(watchMentions) :
                     IsDef(checkWatchMentionedFrom(bodyItems, <<watchMentions[k]>>,
                               <<toLowerCase(watchMentions[k])>>,
                               <<NumberOrNull(watchMentions[k])>>, 1))}
    IN IF found = {} THEN Undef
       ELSE Some(watchMentions[CHOOSE k \in found : \A m \in found : k <= m])

\* the matched watch-list entry, or undefined
checkWatchMentioned(bodyItems, watchMentions) ==
    IF Len(watchMentions) = 0 THEN Undef
    ELSE checkWatchMentionedFrom(bodyItems, watchMentions,
             [k \in 1..Len(watchMentions) |-> toLowerCase(watchMentions[k])],
             [k \in 1..Len(watchMentions) |-> NumberOrNull(watchMentions[k])], 1)

----------------------------------------------------------------------------
(* Prompts.  A prompt string is a sequence of parts; the empty sequence is *)
(* the empty string.  buildWatchMentionPrompt embeds the matched id.       *)

Part(k, id) == [k |-> k, id |-> id]
buildWatchMentionPrompt(mentionedId) == <<Part("watch", mentionedId)>>
buildFollowUpPrompt == <<Part("followUp", <<>>)>>
buildProactivePrompt == <<Part("proactive", <<>>)>>
\* the "\n\n---\n\n" between the policy prompt and the per-group prompt
PromptSeparator == <<Part("separator", <<>>)>>

----------------------------------------------------------------------------
(* Group reply tracking and group config resolution *)

MsPerSecond == 1000

\* a tracker that keeps the first timestamp of a group
recordGroupReply_KeepsFirst(map, groupId, dateNow) ==
    [k \in (DOMAIN map) \cup {groupId} |-> IF k \in DOMAIN map THEN map[k] ELSE dateNow]

\* a tracker that stamps every group it knows at each write
recordGroupReply_RefreshesAll(map, groupId, dateNow) ==
    [k \in (DOMAIN map) \cup {groupId} |-> dateNow]

\* a tracker that remembers the last group only
recordGroupReply_LastGroupOnly(map, groupId, dateNow) ==
    [k \in {groupId} |-> dateNow]

\* groupLastReplyMap.set(groupId, Date.now())
recordGroupReply(map, groupId, dateNow) ==
    [k \in (DOMAIN map) \cup {groupId} |-> IF k = groupId THEN dateNow ELSE map[k]]

\* the window test with <= in place of <
isWithinFollowUpWindow_Inclusive(map, groupId, windowSeconds, dateNow) ==
    IF groupId \notin DOMAIN map \/ map[groupId] = 0 THEN FALSE
    ELSE dateNow - map[groupId] <= windowSeconds * MsPerSecond

\* const lastReply = map.get(groupId); if (!lastReply) return false;
\* return Date.now() - lastReply < windowSeconds * 1000
isWithinFollowUpWindow(map, groupId, windowSeconds, dateNow) ==
    IF groupId \notin DOMAIN map \/ map[groupId] = 0 THEN FALSE
    ELSE dateNow - map[groupId] < windowSeconds * MsPerSecond

\* the inference with the watch list looked at first
inferLegacyReplyMode_WatchFirst(account) ==
    IF Len(Coalesce(account.watchMentions, Some(<<>>))[1]) > 0 THEN "mention-and-watch"
    ELSE IF account.requireMention = Some(FALSE) THEN "proactive"
    ELSE "mention-only"

inferLegacyReplyMode(account) ==
    LET requireMention == account.requireMention # Some(FALSE)
        hasWatch == Len(Coalesce(account.watchMentions, Some(<<>>))[1]) > 0
    IN IF ~requireMention THEN "proactive"
       ELSE IF hasWatch THEN "mention-and-watch"
       ELSE "mention-only"

DefaultFollowUpWindow == 300

\* the merge with the account's settings ahead of the group's
resolveGroupConfig_AccountFirst(account, groupId) ==
    LET key == IF IsDef(groupId) THEN String(Val(groupId)) ELSE <<>>
        has == IsDef(groupId) /\ key \in DOMAIN account.groups
        g(f) == IF has THEN account.groups[key][f] ELSE Undef
    IN [replyMode |-> Val(Coalesce(account.replyMode,
                          Coalesce(g("replyMode"), Some(inferLegacyReplyMode(account))))),
        followUp |-> Val(Coalesce(account.followUp, Coalesce(g("followUp"), Some(TRUE)))),
        followUpWindow |-> Val(Coalesce(account.followUpWindow,
                          Coalesce(g("followUpWindow"), Some(DefaultFollowUpWindow)))),
        watchMentions |-> Val(Coalesce(account.watchMentions,
                          Coalesce(g("watchMentions"), Some(<<>>)))),
        systemPrompt |-> g("systemPrompt")]

\* a resolution that infers the legacy mode from the effective watch list,
\* the group's own list included
resolveGroupConfig_ModeFromEffectiveWatch(account, groupId) ==
    LET key == IF IsDef(groupId) THEN String(Val(groupId)) ELSE <<>>
        has == IsDef(groupId) /\ key \in DOMAIN account.groups
        g(f) == IF has THEN account.groups[key][f] ELSE Undef
        watch == Val(Coalesce(g("watchMentions"), Coalesce(account.watchMentions, Some(<<>>))))
        legacy == IF account.requireMention = Some(FALSE) THEN "proactive"
                  ELSE IF Len(watch) > 0 THEN "mention-and-watch"
                  ELSE "mention-only"
    IN [replyMode |-> Val(Coalesce(g("replyMode"), Coalesce(account.replyMode, Some(legacy)))),
        followUp |-> Val(Coalesce(g("followUp"), Coalesce(account.followUp, Some(TRUE)))),
        followUpWindow |-> Val(Coalesce(g("followUpWindow"),
                          Coalesce(account.followUpWindow, Some(DefaultFollowUpWindow)))),
        watchMentions |-> watch,
        systemPrompt |-> g("systemPrompt")]

\* groupId is an optional number; account.groups maps String(groupId) to overrides
resolveGroupConfig(account, groupId) ==
    LET key == IF IsDef(groupId) THEN String(Val(groupId)) ELSE <<>>
        has == IsDef(groupId) /\ key \in DOMAIN account.groups
        g(f) == IF has THEN account.groups[key][f] ELSE Undef
    IN [replyMode |-> Val(Coalesce(g("replyMode"),
                          Coalesce(account.replyMode, Some(inferLegacyReplyMode(account))))),
        followUp |-> Val(Coalesce(g("followUp"), Coalesce(account.followUp, Some(TRUE)))),
        followUpWindow |-> Val(Coalesce(g("followUpWindow"),
                          Coalesce(account.followUpWindow, Some(DefaultFollowUpWindow)))),
        watchMentions |-> Val(Coalesce(g("watchMentions"),
                          Coalesce(account.watchMentions, Some(<<>>)))),
        systemPrompt |-> g("systemPrompt")]

----------------------------------------------------------------------------
(* Reply dispatcher: createInfoflowReplyDispatcher and its deliver         *)

GroupPrefix == <<"g","r","o","u","p",":">>

\* a group test that takes "group:" followed by anything
IsGroupTarget_PrefixOnly(to) ==
    /\ Len(to) > Len(GroupPrefix)
    /\ toLowerCase(SubSeq(to, 1, Len(GroupPrefix))) = GroupPrefix

\* /^group:\d+$/i.test(to)
IsGroupTarget(to) ==
    /\ Len(to) > Len(GroupPrefix)
    /\ toLowerCase(SubSeq(to, 1, Len(GroupPrefix))) = GroupPrefix
    /\ \A i \in (Len(GroupPrefix) + 1)..Len(to) : IsDigit(to[i])

\* the id -> type map; agent ids are set after user ids and overwrite them
MentionIdMap(mentionIds) ==
    IF ~IsDef(mentionIds) THEN <<>>
    ELSE LET m == Val(mentionIds)
             userKeys == {toLowerCase(m.userIds[i]) : i \in 1..Len(m.userIds)}
             agentKeys == {toLowerCase(String(m.agentIds[i])) : i \in 1..Len(m.agentIds)}
         IN [k \in userKeys \cup agentKeys |-> IF k \in agentKeys THEN "agent" ELSE "user"]

\* [\w.]
WordChars ==
    {UpperCase[i] : i \in 1..Len(UpperCase)} \cup {LowerCase[i] : i \in 1..Len(LowerCase)}
        \cup {Digits[i] : i \in 1..Len(Digits)} \cup {"_", "."}
IsWordChar(c) == c \in WordChars

Least(S) == CHOOSE j \in S : \A k \in S : j <= k

\* end (inclusive) of the longest run of [\w.] starting at i; i - 1 if none
WordEnd(text, i) ==
    Least({j \in i..Len(text) : ~IsWordChar(text[j])} \cup {Len(text) + 1}) - 1

\* the first index >= i at which /@[\w.]/ matches, Len(text) + 1 if none
NextMention(text, i) ==
    Least({j \in i..(Len(text) - 1) : text[j] = "@" /\ IsWordChar(text[j + 1])}
          \cup {Len(text) + 1})

\* the while loop over /@([\w.]+)/g, from the match position i on
RECURSIVE ResolveMentions(_, _, _, _, _)
ResolveMentions(text, i, mentionIdMap, resolvedUserIds, resolvedAgentIds) ==
    IF i > Len(text) THEN [userIds |-> resolvedUserIds, agentIds |-> resolvedAgentIds]
    ELSE LET e == WordEnd(text, i + 1)
             id == SubSeq(text, i + 1, e)
             key == toLowerCase(id)
             type == IF key \in DOMAIN mentionIdMap THEN mentionIdMap[key] ELSE "none"
             numId == NumberOrNull(id)
             n == NextMention(text, e + 1)
         IN IF type = "user" /\ ~includes(resolvedUserIds, id)
            THEN ResolveMentions(text, n, mentionIdMap, Append(resolvedUserIds, id), resolvedAgentIds)
            ELSE IF type = "agent" /\ IsDef(numId) /\ ~includes(resolvedAgentIds, Val(numId))
            THEN ResolveMentions(text, n, mentionIdMap, resolvedUserIds, Append(resolvedAgentIds, Val(numId)))
            ELSE ResolveMentions(text, n, mentionIdMap, resolvedUserIds, resolvedAgentIds)

\* a merge that puts the resolved ids ahead of the explicit ones
MergeIds_ResolvedFirst(allAtUserIds, resolvedUserIds) ==
    resolvedUserIds \o SelectSeq(allAtUserIds, LAMBDA id : ~includes(resolvedUserIds, id))

\* for (const id of resolvedUserIds) if (!allAtUserIds.includes(id)) allAtUserIds.push(id)
RECURSIVE MergeIds(_, _)
MergeIds(allAtUserIds, resolvedUserIds) ==
    IF Len(resolvedUserIds) = 0 THEN allAtUserIds
    ELSE MergeIds(IF includes(allAtUserIds, Head(resolvedUserIds)) THEN allAtUserIds
                  ELSE Append(allAtUserIds, Head(resolvedUserIds)),
                  Tail(resolvedUserIds))

\* atOptions is an optional [atAll: optional boolean, atUserIds: optional list]
HasAtAll(atOptions) == IsDef(atOptions) /\ Val(atOptions).atAll = Some(TRUE)
AtOptionIds(atOptions) ==
    IF ~IsDef(atOptions) \/ Val(atOptions).atAll = Some(TRUE) THEN <<>>
    ELSE Val(Coalesce(Val(atOptions).atUserIds, Some(<<>>)))

\* a prefix that looks at the explicit ids before atAll
AtPrefix_IdsFirst(isGroup, atOptions) ==
    IF ~(isGroup /\ IsDef(atOptions)) THEN <<>>
    ELSE IF Len(Val(Coalesce(Val(atOptions).atUserIds, Some(<<>>)))) > 0
         THEN LET ids == Val(Val(atOptions).atUserIds)
              IN join([i \in 1..Len(ids) |-> <<"@">> \o ids[i]], <<" ">>) \o <<" ">>
    ELSE IF HasAtAll(atOptions) THEN <<"@","a","l","l"," ">>
    ELSE <<>>

\* the text prefix: "@all " or "@id1 @id2 "
AtPrefix(isGroup, atOptions) ==
    IF ~(isGroup /\ IsDef(atOptions)) THEN <<>>
    ELSE IF HasAtAll(atOptions) THEN <<"@","a","l","l"," ">>
    ELSE IF Len(Val(Coalesce(Val(atOptions).atUserIds, Some(<<>>)))) > 0
         THEN LET ids == Val(Val(atOptions).atUserIds)
              IN join([i \in 1..Len(ids) |-> <<"@">> \o ids[i]], <<" ">>) \o <<" ">>
    ELSE <<>>

\* slices without the last, shorter one
Slices_DropsTail(text, limit) ==
    [k \in 1..(Len(text) \div limit) |->
        SubSeq(text, (k - 1) * limit + 1, k * limit)]

\* the runtime's chunkText as the dispatcher's tests define it
Slices(text, limit) ==
    [k \in 1..((Len(text) + limit - 1) \div limit) |->
        SubSeq(text, (k - 1) * limit + 1,
               IF k * limit < Len(text) THEN k * limit ELSE Len(text))]
chunkText(text, limit) ==
    IF Len(Slices(text, limit)) > 0 THEN Slices(text, limit) ELSE <<text>>

ChunkLimit == 4000

Node(type, content) == [type |-> type, content |-> content]

\* a contents array with the mention nodes on every chunk
ChunkContents_EveryChunk(isFirstChunk, isGroup, hasAtAll, allAtUserIds, resolvedAgentIds, chunk) ==
    (IF isGroup
     THEN (IF hasAtAll THEN <<Node("at", <<"a","l","l">>)>>
           ELSE IF Len(allAtUserIds) > 0 THEN <<Node("at", join(allAtUserIds, <<",">>))>>
           ELSE <<>>)
          \o (IF Len(resolvedAgentIds) > 0
              THEN <<Node("at-agent",
                          join([i \in 1..Len(resolvedAgentIds) |-> String(resolvedAgentIds[i])], <<",">>))>>
              ELSE <<>>)
     ELSE <<>>)
    \o <<Node("markdown", chunk)>>

\* the contents array of one send call
ChunkContents(isFirstChunk, isGroup, hasAtAll, allAtUserIds, resolvedAgentIds, chunk) ==
    (IF isFirstChunk /\ isGroup
     THEN (IF hasAtAll THEN <<Node("at", <<"a","l","l">>)>>
           ELSE IF Len(allAtUserIds) > 0 THEN <<Node("at", join(allAtUserIds, <<",">>))>>
           ELSE <<>>)
          \o (IF Len(resolvedAgentIds) > 0
              THEN <<Node("at-agent",
                          join([i \in 1..Len(resolvedAgentIds) |-> String(resolvedAgentIds[i])], <<",">>))>>
              ELSE <<>>)
     ELSE <<>>)
    \o <<Node("markdown", chunk)>>

\* deliver's locals with the prefix made from the merged ids, resolved ones
\* included
DeliverPlan_PrefixFromMerged(d, text) ==
    LET resolved == IF d.isGroup /\ DOMAIN d.mentionIdMap # {}
                    THEN ResolveMentions(text, NextMention(text, 1), d.mentionIdMap, <<>>, <<>>)
                    ELSE [userIds |-> <<>>, agentIds |-> <<>>]
        merged == MergeIds(AtOptionIds(d.atOptions), resolved.userIds)
    IN [chunks |-> chunkText(AtPrefix(d.isGroup,
                                      Some([atAll |-> Some(HasAtAll(d.atOptions)),
                                            atUserIds |-> Some(merged)])) \o text,
                             ChunkLimit),
        next |-> 1,
        isFirstChunk |-> TRUE,
        hasAtAll |-> HasAtAll(d.atOptions),
        allAtUserIds |-> merged,
        resolvedAgentIds |-> resolved.agentIds]

\* deliver's locals with the reply text chunked first and the prefix put in
\* front of the first chunk afterwards
DeliverPlan_PrefixAfterChunking(d, text) ==
    LET resolved == IF d.isGroup /\ DOMAIN d.mentionIdMap # {}
                    THEN ResolveMentions(text, NextMention(text, 1), d.mentionIdMap, <<>>, <<>>)
                    ELSE [userIds |-> <<>>, agentIds |-> <<>>]
    IN [chunks |-> [chunkText(text, ChunkLimit) EXCEPT ![1] = AtPrefix(d.isGroup, d.atOptions) \o @],
        next |-> 1,
        isFirstChunk |-> TRUE,
        hasAtAll |-> HasAtAll(d.atOptions),
        allAtUserIds |-> MergeIds(AtOptionIds(d.atOptions), resolved.userIds),
        resolvedAgentIds |-> resolved.agentIds]

\* deliver's locals once the text is known to be non-blank (lines 60-108)
DeliverPlan(d, text) ==
    LET resolved == IF d.isGroup /\ DOMAIN d.mentionIdMap # {}
                    THEN ResolveMentions(text, NextMention(text, 1), d.mentionIdMap, <<>>, <<>>)
                    ELSE [userIds |-> <<>>, agentIds |-> <<>>]
    IN [chunks |-> chunkText(AtPrefix(d.isGroup, d.atOptions) \o text, ChunkLimit),
        next |-> 1,
        isFirstChunk |-> TRUE,
        hasAtAll |-> HasAtAll(d.atOptions),
        allAtUserIds |-> MergeIds(AtOptionIds(d.atOptions), resolved.userIds),
        resolvedAgentIds |-> resolved.agentIds]

\* createInfoflowReplyDispatcher(params)
createInfoflowReplyDispatcher(to, atOptions, mentionIds) ==
    [to |-> to, atOptions |-> atOptions, isGroup |-> IsGroupTarget(to),
     mentionIdMap |-> MentionIdMap(mentionIds)]

----------------------------------------------------------------------------
(* extractMentionIds and the two webhook entry points, which normalise the *)
(* raw message into the event handed to handleInfoflowMessage              *)

\* the scan with user ids compared as they are written
RECURSIVE extractMentionIdsFrom_ExactDedup(_, _, _, _, _)
extractMentionIdsFrom_ExactDedup(bodyItems, robotName, i, userIds, agentIds) ==
    IF i > Len(bodyItems) THEN [userIds |-> userIds, agentIds |-> agentIds]
    ELSE LET item == bodyItems[i]
             isBot == /\ Truthy(robotName) /\ IsDef(item.name)
                      /\ toLowerCase(Val(item.name)) = toLowerCase(Val(robotName))
             add == IF item.type # "AT" THEN <<"none">>
                    ELSE IF IsDef(item.robotid)
                    THEN IF isBot \/ includes(agentIds, Val(item.robotid))
                         THEN <<"none">> ELSE <<"agent">>
                    ELSE IF Truthy(item.userid) /\ ~includes(userIds, Val(item.userid))
                    THEN <<"user">> ELSE <<"none">>
         IN extractMentionIdsFrom_ExactDedup(bodyItems, robotName, i + 1,
                IF add = <<"user">> THEN Append(userIds, Val(item.userid)) ELSE userIds,
                IF add = <<"agent">> THEN Append(agentIds, Val(item.robotid)) ELSE agentIds)

\* the scan in which the bot's own item is still read for its userid
RECURSIVE extractMentionIdsFrom_BotFallsThrough(_, _, _, _, _)
extractMentionIdsFrom_BotFallsThrough(bodyItems, robotName, i, userIds, agentIds) ==
    IF i > Len(bodyItems) THEN [userIds |-> userIds, agentIds |-> agentIds]
    ELSE LET item == bodyItems[i]
             isBot == /\ Truthy(robotName) /\ IsDef(item.name)
                      /\ toLowerCase(Val(item.name)) = toLowerCase(Val(robotName))
             seenUser == \E k \in 1..Len(userIds) :
                             toLowerCase(userIds[k]) = toLowerCase(Val(item.userid))
             add == IF item.type # "AT" THEN <<"none">>
                    ELSE IF IsDef(item.robotid) /\ ~isBot
                    THEN IF includes(agentIds, Val(item.robotid))
                         THEN <<"none">> ELSE <<"agent">>
                    ELSE IF Truthy(item.userid) /\ ~seenUser
                    THEN <<"user">> ELSE <<"none">>
         IN extractMentionIdsFrom_BotFallsThrough(bodyItems, robotName, i + 1,
                IF add = <<"user">> THEN Append(userIds, Val(item.userid)) ELSE userIds,
                IF add = <<"agent">> THEN Append(agentIds, Val(item.robotid)) ELSE agentIds)

RECURSIVE extractMentionIdsFrom(_, _, _, _, _)
extractMentionIdsFrom(bodyItems, robotName, i, userIds, agentIds) ==
    IF i > Len(bodyItems) THEN [userIds |-> userIds, agentIds |-> agentIds]
    ELSE LET item == bodyItems[i]
             isBot == /\ IsDef(robotName) /\ Len(Val(robotName)) > 0
                      /\ IsDef(item.name)
                      /\ toLowerCase(Val(item.name)) = toLowerCase(Val(robotName))
             seenUser == \E k \in 1..Len(userIds) :
                             toLowerCase(userIds[k]) = toLowerCase(Val(item.userid))
         IN IF item.type # "AT"
            THEN extractMentionIdsFrom(bodyItems, robotName, i + 1, userIds, agentIds)
            ELSE IF IsDef(item.robotid)
            THEN IF isBot \/ includes(agentIds, Val(item.robotid))
                 THEN extractMentionIdsFrom(bodyItems, robotName, i + 1, userIds, agentIds)
                 ELSE extractMentionIdsFrom(bodyItems, robotName, i + 1, userIds,
                                            Append(agentIds, Val(item.robotid)))
            ELSE IF Truthy(item.userid) /\ ~seenUser
            THEN extractMentionIdsFrom(bodyItems, robotName, i + 1,
                                       Append(userIds, Val(item.userid)), agentIds)
            ELSE extractMentionIdsFrom(bodyItems, robotName, i + 1, userIds, agentIds)

extractMentionIds(bodyItems, robotName) ==
    extractMentionIdsFrom(bodyItems, robotName, 1, <<>>, <<>>)

Event(chatType, groupId, fromuser, wasMentioned, bodyItems, mentionIds) ==
    [chatType |-> chatType, groupId |-> groupId, fromuser |-> fromuser,
     wasMentioned |-> wasMentioned, bodyItems |-> bodyItems, mentionIds |-> mentionIds]

\* the event handleGroupChatMessage builds from a message with a sender and text
handleGroupChatMessage(account, groupid, fromuser, bodyItems) ==
    LET mentionIds == extractMentionIds(bodyItems, account.robotName)
    IN Event("group", groupid, fromuser,
             Some(checkBotMentioned(bodyItems, account.robotName)),
             Some(bodyItems),
             IF Len(mentionIds.userIds) > 0 \/ Len(mentionIds.agentIds) > 0
             THEN Some(mentionIds) ELSE Undef)

\* the event handlePrivateChatMessage builds
handlePrivateChatMessage(fromuser) ==
    Event("direct", Undef, fromuser, Undef, Undef, Undef)

----------------------------------------------------------------------------
(* Reply-mode gating of handleInfoflowMessage (lines 523-590)              *)

Decision(reply, prompt) == [reply |-> reply, prompt |-> prompt]

\* the follow-up test without its groupCfg.followUp conjunct
FollowUpActive_IgnoresFlag(groupCfg, groupIdStr, map, dateNow) ==
    /\ Truthy(groupIdStr)
    /\ isWithinFollowUpWindow(map, Val(groupIdStr), groupCfg.followUpWindow, dateNow)

\* the follow-up test shared by mention-only and mention-and-watch
FollowUpActive(groupCfg, groupIdStr, map, dateNow) ==
    /\ groupCfg.followUp
    /\ Truthy(groupIdStr)
    /\ isWithinFollowUpWindow(map, Val(groupIdStr), groupCfg.followUpWindow, dateNow)

\* a watch check that never matches
MatchedWatchId_Never(groupCfg, bodyItems) == Undef

\* watchMentions.length > 0 && event.bodyItems ? checkWatchMentioned(...) : undefined
MatchedWatchId(groupCfg, bodyItems) ==
    IF Len(groupCfg.watchMentions) > 0 /\ IsDef(bodyItems)
    THEN checkWatchMentioned(Val(bodyItems), groupCfg.watchMentions)
    ELSE Undef

\* the gating with the follow-up test of mention-and-watch ahead of its
\* watch test
GateDecision_FollowUpFirst(groupCfg, canDetectMention, wasMentioned, bodyItems, groupIdStr, map, dateNow) ==
    LET botMentioned == canDetectMention /\ wasMentioned
        matchedWatchId == MatchedWatchId(groupCfg, bodyItems)
        followUp == FollowUpActive(groupCfg, groupIdStr, map, dateNow)
    IN CASE groupCfg.replyMode = "mention-only" ->
               IF botMentioned THEN Decision(TRUE, Undef)
               ELSE IF followUp THEN Decision(TRUE, Some(buildFollowUpPrompt))
               ELSE Decision(FALSE, Undef)
         [] groupCfg.replyMode = "mention-and-watch" ->
               IF botMentioned THEN Decision(TRUE, Undef)
               ELSE IF followUp THEN Decision(TRUE, Some(buildFollowUpPrompt))
               ELSE IF Truthy(matchedWatchId)
                    THEN Decision(TRUE, Some(buildWatchMentionPrompt(Val(matchedWatchId))))
               ELSE Decision(FALSE, Undef)
         [] groupCfg.replyMode = "proactive" ->
               IF botMentioned THEN Decision(TRUE, Undef)
               ELSE IF Truthy(matchedWatchId)
                    THEN Decision(TRUE, Some(buildWatchMentionPrompt(Val(matchedWatchId))))
               ELSE Decision(TRUE, Some(buildProactivePrompt))
         [] OTHER -> Decision(TRUE, Undef)

\* the gating whose mention-and-watch branch has no follow-up test
GateDecision_WatchWithoutFollowUp(groupCfg, canDetectMention, wasMentioned, bodyItems, groupIdStr, map, dateNow) ==
    LET botMentioned == canDetectMention /\ wasMentioned
        matchedWatchId == MatchedWatchId(groupCfg, bodyItems)
        followUp == FollowUpActive(groupCfg, groupIdStr, map, dateNow)
    IN CASE groupCfg.replyMode = "mention-only" ->
               IF botMentioned THEN Decision(TRUE, Undef)
               ELSE IF followUp THEN Decision(TRUE, Some(buildFollowUpPrompt))
               ELSE Decision(FALSE, Undef)
         [] groupCfg.replyMode = "mention-and-watch" ->
               IF botMentioned THEN Decision(TRUE, Undef)
               ELSE IF Truthy(matchedWatchId)
                    THEN Decision(TRUE, Some(buildWatchMentionPrompt(Val(matchedWatchId))))
               ELSE Decision(FALSE, Undef)
         [] groupCfg.replyMode = "proactive" ->
               IF botMentioned THEN Decision(TRUE, Undef)
               ELSE IF Truthy(matchedWatchId)
                    THEN Decision(TRUE, Some(buildWatchMentionPrompt(Val(matchedWatchId))))
               ELSE Decision(TRUE, Some(buildProactivePrompt))
         [] OTHER -> Decision(TRUE, Undef)

\* the gating that takes event.wasMentioned as it comes, bot name or not
GateDecision_TrustsFlag(groupCfg, canDetectMention, wasMentioned, bodyItems, groupIdStr, map, dateNow) ==
    LET matchedWatchId == MatchedWatchId(groupCfg, bodyItems)
        followUp == FollowUpActive(groupCfg, groupIdStr, map, dateNow)
    IN CASE groupCfg.replyMode = "mention-only" ->
               IF wasMentioned THEN Decision(TRUE, Undef)
               ELSE IF followUp THEN Decision(TRUE, Some(buildFollowUpPrompt))
               ELSE Decision(FALSE, Undef)
         [] groupCfg.replyMode = "mention-and-watch" ->
               IF wasMentioned THEN Decision(TRUE, Undef)
               ELSE IF Truthy(matchedWatchId)
                    THEN Decision(TRUE, Some(buildWatchMentionPrompt(Val(matchedWatchId))))
               ELSE IF followUp THEN Decision(TRUE, Some(buildFollowUpPrompt))
               ELSE Decision(FALSE, Undef)
         [] groupCfg.replyMode = "proactive" ->
               IF wasMentioned THEN Decision(TRUE, Undef)
               ELSE IF Truthy(matchedWatchId)
                    THEN Decision(TRUE, Some(buildWatchMentionPrompt(Val(matchedWatchId))))
               ELSE Decision(TRUE, Some(buildProactivePrompt))
         [] OTHER -> Decision(TRUE, Undef)

\* whether the handler goes on to dispatch, and ctxPayload.GroupSystemPrompt
\* as the mode's branch leaves it
GateDecision(groupCfg, canDetectMention, wasMentioned, bodyItems, groupIdStr, map, dateNow) ==
    LET botMentioned == canDetectMention /\ wasMentioned
        matchedWatchId == MatchedWatchId(groupCfg, bodyItems)
        followUp == FollowUpActive(groupCfg, groupIdStr, map, dateNow)
    IN CASE groupCfg.replyMode = "mention-only" ->
               IF botMentioned THEN Decision(TRUE, Undef)
               ELSE IF followUp THEN Decision(TRUE, Some(buildFollowUpPrompt))
               ELSE Decision(FALSE, Undef)
         [] groupCfg.replyMode = "mention-and-watch" ->
               IF botMentioned THEN Decision(TRUE, Undef)
               ELSE IF Truthy(matchedWatchId)
                    THEN Decision(TRUE, Some(buildWatchMentionPrompt(Val(matchedWatchId))))
               ELSE IF followUp THEN Decision(TRUE, Some(buildFollowUpPrompt))
               ELSE Decision(FALSE, Undef)
         [] groupCfg.replyMode = "proactive" ->
               IF botMentioned THEN Decision(TRUE, Undef)
               ELSE IF Truthy(matchedWatchId)
                    THEN Decision(TRUE, Some(buildWatchMentionPrompt(Val(matchedWatchId))))
               ELSE Decision(TRUE, Some(buildProactivePrompt))
         [] OTHER -> Decision(TRUE, Undef)

\* the per-group prompt put in place of the policy prompt
InjectSystemPrompt_Replaces(groupSystemPrompt, systemPrompt) ==
    IF Truthy(systemPrompt) THEN systemPrompt ELSE groupSystemPrompt

\* if (groupCfg.systemPrompt) { existing = GroupSystemPrompt ?? ""; ... }
InjectSystemPrompt(groupSystemPrompt, systemPrompt) ==
    IF ~Truthy(systemPrompt) THEN groupSystemPrompt
    ELSE LET existing == Val(Coalesce(groupSystemPrompt, Some(<<>>)))
         IN IF Len(existing) > 0
            THEN Some(existing \o PromptSeparator \o Val(systemPrompt))
            ELSE systemPrompt

----------------------------------------------------------------------------
(* State *)

Handlers == {"h1", "h2"}

VARIABLES
    now,                \* Date.now(), milliseconds
    groupLastReplyMap,  \* the process-wide map: String(groupId) -> timestamp
    pc,                 \* per handler invocation: "idle", "recording" (awaiting
                        \* recordInboundSession), "dispatching" (awaiting
                        \* dispatchReplyWithBufferedBlockDispatcher), "sending"
                        \* (deliver awaiting sendInfoflowMessage), "returned"
    exit,               \* the return statement taken: "ignore", "record",
                        \* "mention-only", "mention-and-watch", "end"; "" before
    event,              \* params.event (optional)
    robotName,          \* account.config.robotName (optional string)
    groupCfg,           \* the resolved group config (optional)
    ctxPayload,         \* [GroupSystemPrompt: optional prompt]
    dispatcher,         \* the closure of createInfoflowReplyDispatcher (optional)
    plan,               \* the locals of the running deliver call (optional)
    calls,              \* per invocation, the number of calls made so far:
                        \* resolveAgentRoute, recordInboundSession, dispatchReply...,
                        \* deliver, sendInfoflowMessage (and those resolved ok), statusSink
    sends,              \* the sendInfoflowMessage calls of the current (or, between
                        \* deliver calls, the last) deliver call, in call order
    probe,              \* the last direct call of an exported or test-exported
                        \* function: its name, arguments and result (optional)
    payload             \* payload.text of the current or last deliver call (optional)

vars == <<now, groupLastReplyMap, pc, exit, event, robotName, groupCfg, ctxPayload,
          dispatcher, plan, calls, sends, probe, payload>>

NoCalls == [route |-> 0, session |-> 0, dispatch |-> 0, deliver |-> 0, send |-> 0,
            sendOk |-> 0, sink |-> 0]
NoCtx == [GroupSystemPrompt |-> Undef]

\* the clock starts at a positive time and advances in half seconds
StartNow == MsPerSecond
TickMs == MsPerSecond \div 2
MaxTicks == 3
MaxDelivers == 1

Init ==
    /\ now = StartNow
    /\ groupLastReplyMap = <<>>
    /\ pc = [p \in Handlers |-> "idle"]
    /\ exit = [p \in Handlers |-> ""]
    /\ event = [p \in Handlers |-> Undef]
    /\ robotName = [p \in Handlers |-> Undef]
    /\ groupCfg = [p \in Handlers |-> Undef]
    /\ ctxPayload = [p \in Handlers |-> NoCtx]
    /\ dispatcher = [p \in Handlers |-> Undef]
    /\ plan = [p \in Handlers |-> Undef]
    /\ calls = [p \in Handlers |-> NoCalls]
    /\ sends = [p \in Handlers |-> <<>>]
    /\ probe = Undef
    /\ payload = [p \in Handlers |-> Undef]

----------------------------------------------------------------------------
(* Actions: each is the code between two awaits *)

Tick ==
    /\ now < StartNow + MaxTicks * TickMs
    /\ now' = now + TickMs
    /\ UNCHANGED <<groupLastReplyMap, pc, exit, event, robotName, groupCfg, ctxPayload,
                   dispatcher, plan, calls, sends, probe, payload>>

\* an ignore test that never holds
IsIgnored_Never(isGroup, gc) == FALSE

\* line 439: isGroup && groupCfg?.replyMode === "ignore"
IsIgnored(isGroup, gc) == isGroup /\ Val(gc).replyMode = "ignore"

\* the route and the session write ahead of the ignore test
StartCalls_RecordFirst(ignored) == [NoCalls EXCEPT !.route = 1, !.session = 1]

\* the calls made before the first await: none when the message is ignored,
\* else resolveAgentRoute (line 444) and recordInboundSession (line 501)
StartCalls(ignored) ==
    IF ignored THEN NoCalls ELSE [NoCalls EXCEPT !.route = 1, !.session = 1]

\* handleInfoflowMessage, lines 424-510: up to the await of recordInboundSession
HandleInfoflowMessage(p, account, ev) ==
    LET isGroup == ev.chatType = "group"
        gc == IF isGroup THEN Some(resolveGroupConfig(account, ev.groupId)) ELSE Undef
        ignored == IsIgnored(isGroup, gc)
    IN /\ pc[p] = "idle"
       /\ event' = [event EXCEPT ![p] = Some(ev)]
       /\ robotName' = [robotName EXCEPT ![p] = account.robotName]
       /\ groupCfg' = [groupCfg EXCEPT ![p] = gc]
       /\ calls' = [calls EXCEPT ![p] = StartCalls(ignored)]
       /\ pc' = [pc EXCEPT ![p] = IF ignored THEN "returned" ELSE "recording"]
       /\ exit' = [exit EXCEPT ![p] = IF ignored THEN "ignore" ELSE ""]
       /\ UNCHANGED <<now, groupLastReplyMap, ctxPayload, dispatcher, plan, sends, probe, payload>>

\* a record mode that lets a bot mention through to the agent
GateOutcome_ReplyWhenMentioned(cfg, canDetectMention, wasMentioned, bodyItems, groupIdStr, map, dateNow) ==
    IF cfg.replyMode = "record" /\ ~(canDetectMention /\ wasMentioned)
    THEN [kind |-> "record", prompt |-> Undef]
    ELSE LET d == GateDecision(cfg, canDetectMention, wasMentioned, bodyItems,
                               groupIdStr, map, dateNow)
         IN [kind |-> IF d.reply THEN "reply" ELSE "skip", prompt |-> d.prompt]

\* lines 514-582: "record" returns, else the mode's branch decides
GateOutcome(cfg, canDetectMention, wasMentioned, bodyItems, groupIdStr, map, dateNow) ==
    IF cfg.replyMode = "record" THEN [kind |-> "record", prompt |-> Undef]
    ELSE LET d == GateDecision(cfg, canDetectMention, wasMentioned, bodyItems,
                               groupIdStr, map, dateNow)
         IN [kind |-> IF d.reply THEN "reply" ELSE "skip", prompt |-> d.prompt]

\* line 617: atOptions: isGroup && event.wasMentioned ? { atUserIds: [fromuser] } : undefined
ReplyAtOptions(ev) ==
    IF ev.chatType = "group" /\ ev.wasMentioned = Some(TRUE)
    THEN Some([atAll |-> Undef, atUserIds |-> Some(<<ev.fromuser>>)])
    ELSE Undef

\* line 594: "group:<id>" for group chat, username for private chat
ReplyTarget(ev) ==
    IF ev.chatType = "group" /\ IsDef(ev.groupId)
    THEN GroupPrefix \o String(Val(ev.groupId)) ELSE ev.fromuser

\* lines 512-627: the gating, the dispatcher, the call of dispatchReply...
Gate(p) ==
    LET ev == Val(event[p])
        isGroup == ev.chatType = "group"
        gated == isGroup /\ IsDef(groupCfg[p])
        gc == Val(groupCfg[p])
        groupIdStr == IF IsDef(ev.groupId) THEN Some(String(Val(ev.groupId))) ELSE Undef
        o == IF gated
             THEN GateOutcome(gc, Truthy(robotName[p]), ev.wasMentioned = Some(TRUE),
                              ev.bodyItems, groupIdStr, groupLastReplyMap, now)
             ELSE [kind |-> "reply", prompt |-> Undef]
    IN /\ pc[p] = "recording"
       /\ IF o.kind # "reply"
          THEN /\ pc' = [pc EXCEPT ![p] = "returned"]
               /\ exit' = [exit EXCEPT ![p] = gc.replyMode]
               /\ UNCHANGED <<ctxPayload, dispatcher, calls>>
          ELSE /\ pc' = [pc EXCEPT ![p] = "dispatching"]
               /\ ctxPayload' = [ctxPayload EXCEPT ![p].GroupSystemPrompt =
                                    IF gated THEN InjectSystemPrompt(o.prompt, gc.systemPrompt)
                                    ELSE Undef]
               /\ dispatcher' = [dispatcher EXCEPT ![p] =
                                    Some(createInfoflowReplyDispatcher(ReplyTarget(ev),
                                             ReplyAtOptions(ev),
                                             IF isGroup THEN ev.mentionIds ELSE Undef))]
               /\ calls' = [calls EXCEPT ![p].dispatch = 1]
               /\ UNCHANGED exit
       /\ UNCHANGED <<now, groupLastReplyMap, event, robotName, groupCfg, plan, sends, probe, payload>>

\* The locals of handleInfoflowMessage that the code after the gating never
\* reads (groupCfg, account, event.bodyItems) leave the state with the
\* handler's next step.
DropLocals(p) ==
    /\ robotName' = [robotName EXCEPT ![p] = Undef]
    /\ groupCfg' = [groupCfg EXCEPT ![p] = Undef]
    /\ event' = [event EXCEPT ![p] =
                    IF IsDef(@) THEN Some([Val(@) EXCEPT !.bodyItems = Undef]) ELSE @]

\* a send call that takes the chunks from the last to the first
SendCall_Reversed(d, pl) ==
    [to |-> d.to,
     contents |-> ChunkContents(pl.isFirstChunk, d.isGroup, pl.hasAtAll, pl.allAtUserIds,
                                pl.resolvedAgentIds, pl.chunks[Len(pl.chunks) + 1 - pl.next]),
     result |-> "pending"]

\* one sendInfoflowMessage call: its arguments and, once it has resolved, its result
SendCall(d, pl) ==
    [to |-> d.to,
     contents |-> ChunkContents(pl.isFirstChunk, d.isGroup, pl.hasAtAll, pl.allAtUserIds,
                                pl.resolvedAgentIds, pl.chunks[pl.next]),
     result |-> "pending"]

\* a loop body that calls the status sink after every send
AfterSend_AlwaysSinks(c, ok) ==
    [c EXCEPT !.sendOk = IF ok THEN @ + 1 ELSE @,
              !.sink = @ + 1]

\* the loop body after the await (lines 131-137): the status sink is called
\* with lastOutboundAt iff result.ok
AfterSend(c, ok) ==
    [c EXCEPT !.sendOk = IF ok THEN @ + 1 ELSE @,
              !.sink = IF ok THEN @ + 1 ELSE @]

\* a loop that stops at the first failed send
LoopContinues_StopsOnFailure(pl, ok) == ok /\ pl.next < Len(pl.chunks)

\* whether the for loop goes on to the next chunk after a send has resolved
LoopContinues(pl, ok) == pl.next < Len(pl.chunks)

\* a deliver whose first-chunk flag belongs to the dispatcher and not to the
\* call: only the first call of a dispatcher has a first chunk
Deliver_FlagPerDispatcher(p, text) ==
    /\ pc[p] = "dispatching"
    /\ IF IsBlank(text)
       THEN /\ calls' = [calls EXCEPT ![p].deliver = @ + 1]
            /\ sends' = [sends EXCEPT ![p] = <<>>]
            /\ UNCHANGED <<pc, plan>>
       ELSE LET pl == [DeliverPlan(Val(dispatcher[p]), text)
                          EXCEPT !.isFirstChunk = (calls[p].deliver = 0)]
            IN /\ calls' = [calls EXCEPT ![p].deliver = @ + 1, ![p].send = @ + 1]
               /\ sends' = [sends EXCEPT ![p] = <<SendCall(Val(dispatcher[p]), pl)>>]
               /\ plan' = [plan EXCEPT ![p] = Some([pl EXCEPT !.isFirstChunk = FALSE])]
               /\ pc' = [pc EXCEPT ![p] = "sending"]
    /\ payload' = [payload EXCEPT ![p] = Some(text)]
    /\ DropLocals(p)
    /\ UNCHANGED <<now, groupLastReplyMap, exit, ctxPayload, dispatcher, probe>>

\* the buffered block dispatcher calls deliver(payload): lines 53-129, up to
\* the await of the first sendInfoflowMessage
Deliver(p, text) ==
    /\ pc[p] = "dispatching"
    /\ IF IsBlank(text)
       THEN /\ calls' = [calls EXCEPT ![p].deliver = @ + 1]
            /\ sends' = [sends EXCEPT ![p] = <<>>]
            /\ UNCHANGED <<pc, plan>>
       ELSE LET pl == DeliverPlan(Val(dispatcher[p]), text)
            IN /\ calls' = [calls EXCEPT ![p].deliver = @ + 1, ![p].send = @ + 1]
               /\ sends' = [sends EXCEPT ![p] = <<SendCall(Val(dispatcher[p]), pl)>>]
               /\ plan' = [plan EXCEPT ![p] = Some([pl EXCEPT !.isFirstChunk = FALSE])]
               /\ pc' = [pc EXCEPT ![p] = "sending"]
    /\ payload' = [payload EXCEPT ![p] = Some(text)]
    /\ DropLocals(p)
    /\ UNCHANGED <<now, groupLastReplyMap, exit, ctxPayload, dispatcher, probe>>

\* a send resolution that stamps the group's tracker entry as soon as a
\* chunk has been sent
SendReturn_RecordsOnSuccess(p, ok) ==
    LET pl == Val(plan[p])
        ev == Val(event[p])
        logged == [sends[p] EXCEPT ![Len(sends[p])].result = IF ok THEN "ok" ELSE "failed"]
        nxt == [pl EXCEPT !.next = @ + 1]
    IN /\ pc[p] = "sending"
       /\ IF pl.next < Len(pl.chunks)
          THEN /\ sends' = [sends EXCEPT ![p] = Append(logged, SendCall(Val(dispatcher[p]), nxt))]
               /\ calls' = [calls EXCEPT ![p] = [AfterSend(@, ok) EXCEPT !.send = @ + 1]]
               /\ plan' = [plan EXCEPT ![p] = Some(nxt)]
               /\ UNCHANGED pc
          ELSE /\ sends' = [sends EXCEPT ![p] = logged]
               /\ calls' = [calls EXCEPT ![p] = AfterSend(@, ok)]
               /\ plan' = [plan EXCEPT ![p] = Undef]
               /\ pc' = [pc EXCEPT ![p] = "dispatching"]
       /\ groupLastReplyMap' =
              IF ok /\ ev.chatType = "group" /\ IsDef(ev.groupId)
              THEN [k \in (DOMAIN groupLastReplyMap) \cup {String(Val(ev.groupId))} |->
                       IF k = String(Val(ev.groupId)) THEN now ELSE groupLastReplyMap[k]]
              ELSE groupLastReplyMap
       /\ UNCHANGED <<now, exit, event, robotName, groupCfg, ctxPayload, dispatcher, probe, payload>>

\* a send resolution that keeps the mention nodes for the next chunk until a
\* send has succeeded
SendReturn_MentionsUntilSent(p, ok) ==
    LET pl == Val(plan[p])
        logged == [sends[p] EXCEPT ![Len(sends[p])].result = IF ok THEN "ok" ELSE "failed"]
        nxt == [pl EXCEPT !.next = @ + 1,
                          !.isFirstChunk = \A i \in 1..Len(logged) : logged[i].result = "failed"]
    IN /\ pc[p] = "sending"
       /\ IF pl.next < Len(pl.chunks)
          THEN /\ sends' = [sends EXCEPT ![p] = Append(logged, SendCall(Val(dispatcher[p]), nxt))]
               /\ calls' = [calls EXCEPT ![p] = [AfterSend(@, ok) EXCEPT !.send = @ + 1]]
               /\ plan' = [plan EXCEPT ![p] = Some(nxt)]
               /\ UNCHANGED pc
          ELSE /\ sends' = [sends EXCEPT ![p] = logged]
               /\ calls' = [calls EXCEPT ![p] = AfterSend(@, ok)]
               /\ plan' = [plan EXCEPT ![p] = Undef]
               /\ pc' = [pc EXCEPT ![p] = "dispatching"]
       /\ UNCHANGED <<now, groupLastReplyMap, exit, event, robotName, groupCfg, ctxPayload,
                      dispatcher, probe, payload>>

\* sendInfoflowMessage resolves with result.ok = ok: lines 129-138, then the
\* next iteration of the loop up to its await, or the end of deliver
SendReturn(p, ok) ==
    LET pl == Val(plan[p])
        logged == [sends[p] EXCEPT ![Len(sends[p])].result = IF ok THEN "ok" ELSE "failed"]
        nxt == [pl EXCEPT !.next = @ + 1]
    IN /\ pc[p] = "sending"
       /\ IF LoopContinues(pl, ok)
          THEN /\ sends' = [sends EXCEPT ![p] = Append(logged, SendCall(Val(dispatcher[p]), nxt))]
               /\ calls' = [calls EXCEPT ![p] = [AfterSend(@, ok) EXCEPT !.send = @ + 1]]
               /\ plan' = [plan EXCEPT ![p] = Some(nxt)]
               /\ UNCHANGED pc
          ELSE /\ sends' = [sends EXCEPT ![p] = logged]
               /\ calls' = [calls EXCEPT ![p] = AfterSend(@, ok)]
               /\ plan' = [plan EXCEPT ![p] = Undef]
               /\ pc' = [pc EXCEPT ![p] = "dispatching"]
       /\ UNCHANGED <<now, groupLastReplyMap, exit, event, robotName, groupCfg, ctxPayload,
                      dispatcher, probe, payload>>

\* a completion that files the reply under the invocation as well as the group
DispatchReturn_PerInvocationKey(p) ==
    LET ev == Val(event[p])
    IN /\ pc[p] = "dispatching"
       /\ groupLastReplyMap' =
              IF ev.chatType = "group" /\ IsDef(ev.groupId)
              THEN recordGroupReply(groupLastReplyMap, <<p>> \o String(Val(ev.groupId)), now)
              ELSE groupLastReplyMap
       /\ pc' = [pc EXCEPT ![p] = "returned"]
       /\ exit' = [exit EXCEPT ![p] = "end"]
       /\ payload' = [payload EXCEPT ![p] = Undef]
       /\ DropLocals(p)
       /\ UNCHANGED <<now, ctxPayload, dispatcher, plan, calls, sends, probe>>

\* dispatchReplyWithBufferedBlockDispatcher resolves: lines 629-637
DispatchReturn(p) ==
    LET ev == Val(event[p])
    IN /\ pc[p] = "dispatching"
       /\ groupLastReplyMap' =
              IF ev.chatType = "group" /\ IsDef(ev.groupId)
              THEN recordGroupReply(groupLastReplyMap, String(Val(ev.groupId)), now)
              ELSE groupLastReplyMap
       /\ pc' = [pc EXCEPT ![p] = "returned"]
       /\ exit' = [exit EXCEPT ![p] = "end"]
       /\ payload' = [payload EXCEPT ![p] = Undef]
       /\ DropLocals(p)
       /\ UNCHANGED <<now, ctxPayload, dispatcher, plan, calls, sends, probe>>

\* the promise of handleInfoflowMessage has settled: the invocation's frame
\* and the record of its calls are discarded, and the worker takes the next message
Settle(p) ==
    /\ pc[p] = "returned"
    /\ pc' = [pc EXCEPT ![p] = "idle"]
    /\ exit' = [exit EXCEPT ![p] = ""]
    /\ event' = [event EXCEPT ![p] = Undef]
    /\ robotName' = [robotName EXCEPT ![p] = Undef]
    /\ groupCfg' = [groupCfg EXCEPT ![p] = Undef]
    /\ ctxPayload' = [ctxPayload EXCEPT ![p] = NoCtx]
    /\ dispatcher' = [dispatcher EXCEPT ![p] = Undef]
    /\ calls' = [calls EXCEPT ![p] = NoCalls]
    /\ sends' = [sends EXCEPT ![p] = <<>>]
    /\ UNCHANGED <<now, groupLastReplyMap, plan, probe, payload>>

----------------------------------------------------------------------------
(* Inputs of the message-handling specification *)

BotName == <<"B","o","t">>
Sender == <<"u","1">>
WatchAl == <<"a","l">>
GroupIds == {101, 202}
Windows == {0, 1}
ReplyModes == {"ignore", "record", "mention-only", "mention-and-watch", "proactive"}
\* the per-group systemPrompt of a group that has one
ExtraPrompt == <<Part("group", <<>>)>>

Account(rn, requireMention, watchMentions, replyMode, followUp, followUpWindow, groups) ==
    [robotName |-> rn, requireMention |-> requireMention, watchMentions |-> watchMentions,
     replyMode |-> replyMode, followUp |-> followUp, followUpWindow |-> followUpWindow,
     groups |-> groups]

GroupConfig(replyMode, watchMentions, followUp, followUpWindow, systemPrompt) ==
    [replyMode |-> replyMode, watchMentions |-> watchMentions, followUp |-> followUp,
     followUpWindow |-> followUpWindow, systemPrompt |-> systemPrompt]

NoGroups == [k \in {} |-> GroupConfig(Undef, Undef, Undef, Undef, Undef)]
\* the first group has an override that only adds a system prompt
PromptGroups ==
    [k \in {String(CHOOSE g \in GroupIds : \A h \in GroupIds : g <= h)} |->
        GroupConfig(Undef, Undef, Undef, Undef, Some(ExtraPrompt))]

\* an explicit reply mode, or none and the legacy requireMention setting
ModeSettings ==
    {<<Some(m), Undef>> : m \in ReplyModes} \cup {<<Undef, Undef>>, <<Undef, Some(FALSE)>>}

\* the first group has an override that only adds a watch list
WatchGroups ==
    [k \in {String(CHOOSE g \in GroupIds : \A h \in GroupIds : g <= h)} |->
        GroupConfig(Undef, Some(<<WatchAl>>), Undef, Undef, Undef)]
\* accounts in the legacy form (no reply mode, requireMention not false) that
\* watch nobody themselves and leave the watch list to that group
LegacyWatchAccounts ==
    {Account(Some(BotName), rm, wm, Undef, Undef, Some(1), WatchGroups) :
        rm \in {Undef, Some(TRUE)},
        wm \in {Undef, Some(<<>>)}}

Accounts ==
    {Account(rn, ms[2], wm, ms[1], fu, fw, gs) :
        rn \in {Undef, Some(BotName)},
        ms \in ModeSettings,
        wm \in {Undef, Some(<<WatchAl>>)},
        fu \in {Undef, Some(FALSE)},
        fw \in {Undef} \cup {Some(w) : w \in Windows},
        gs \in {NoGroups, PromptGroups}}
    \cup LegacyWatchAccounts

\* message bodies: plain text; the bot @-mentioned (other letter case); a
\* watched user @-mentioned (other letter case); both
AtBot == AtRobot(Some(<<"b","o","t">>), 7)
AtWatched == AtUser(Some(<<"A","l">>), <<"A","L">>)
Bodies == {<<TextItem>>, <<AtBot, TextItem>>, <<AtWatched, TextItem>>,
           <<AtBot, AtWatched, TextItem>>}

\* events handed to handleInfoflowMessage directly, with a wasMentioned flag
\* that no body backs
FlaggedEvents ==
    {Event("group", Some(g), Sender, Some(TRUE), Some(b), Undef) :
        g \in GroupIds, b \in {<<TextItem>>, <<AtWatched, TextItem>>}}

\* the agent's replies; each fits one chunk
ReplyTexts == {<<>>, <<" ">>, <<"o","k">>}

\* one invocation at a time
Workers == {"h1"}

HandleGroupChat ==
    \E p \in Workers :
        /\ pc[p] = "idle"
        /\ \E account \in Accounts, b \in Bodies, g \in {Undef} \cup {Some(n) : n \in GroupIds} :
               HandleInfoflowMessage(p, account, handleGroupChatMessage(account, g, Sender, b))

HandlePrivateChat ==
    \E p \in Workers :
        /\ pc[p] = "idle"
        /\ \E account \in Accounts :
               HandleInfoflowMessage(p, account, handlePrivateChatMessage(Sender))

HandleFlagged ==
    \E p \in Workers :
        /\ pc[p] = "idle"
        /\ \E account \in Accounts, ev \in FlaggedEvents :
               HandleInfoflowMessage(p, account, ev)

Gating == \E p \in Workers : Gate(p)
Delivering ==
    \E p \in Workers :
        /\ pc[p] = "dispatching" /\ calls[p].deliver < MaxDelivers
        /\ \E text \in ReplyTexts : Deliver(p, text)
SendReturning == \E p \in Workers, ok \in BOOLEAN : SendReturn(p, ok)
DispatchReturning == \E p \in Workers : DispatchReturn(p)
Settling == \E p \in Workers : Settle(p)

Next ==
    \/ Tick
    \/ HandleGroupChat
    \/ HandlePrivateChat
    \/ HandleFlagged
    \/ Gating
    \/ Delivering
    \/ SendReturning
    \/ DispatchReturning
    \/ Settling

Spec == Init /\ [][Next]_vars

----------------------------------------------------------------------------
(* The dispatcher on its own: one createInfoflowReplyDispatcher(params),   *)
(* then deliver calls with replies that span several chunks                *)

Filler(n) == [i \in 1..n |-> "x"]
\* "@al @7 "
MentionText == <<"@","a","l"," ","@","7"," ">>

DeliverTargets == {GroupPrefix \o String(g) : g \in GroupIds} \cup {Sender}
DeliverAtOptions ==
    {Undef,
     Some([atAll |-> Undef, atUserIds |-> Undef]),
     Some([atAll |-> Undef, atUserIds |-> Some(<<Sender>>)]),
     Some([atAll |-> Undef, atUserIds |-> Some(<<Sender, <<"b","o">>>>)]),
     Some([atAll |-> Some(TRUE), atUserIds |-> Some(<<Sender>>)])}
DeliverMentionIds ==
    {Undef, Some([userIds |-> <<WatchAl>>, agentIds |-> <<7>>]),
     Some([userIds |-> <<WatchAl, Sender>>, agentIds |-> <<7>>])}
\* "@zz @AL @al @U1 @u1 @7.": an unknown id, known ids in other letter case
\* and repeated, an agent id followed by a dot
CaseText ==
    <<"@","z","z"," ","@","A","L"," ","@","a","l"," ","@","U","1"," ","@","u","1"," ",
      "@","7",".">>
\* empty, blank, one chunk, exactly the limit, three chunks
DeliverTexts ==
    {<<>>, <<" ">>, MentionText \o <<"o","k">>, CaseText, Filler(ChunkLimit),
     MentionText \o Filler(2 * ChunkLimit)}

InitDeliver ==
    /\ now = StartNow
    /\ groupLastReplyMap = <<>>
    /\ pc = [p \in Handlers |-> IF p \in Workers THEN "dispatching" ELSE "idle"]
    /\ exit = [p \in Handlers |-> ""]
    /\ event = [p \in Handlers |-> Undef]
    /\ robotName = [p \in Handlers |-> Undef]
    /\ groupCfg = [p \in Handlers |-> Undef]
    /\ ctxPayload = [p \in Handlers |-> NoCtx]
    /\ \E to \in DeliverTargets, atOptions \in DeliverAtOptions, mentionIds \in DeliverMentionIds :
          dispatcher = [p \in Handlers |->
                           IF p \in Workers
                           THEN Some(createInfoflowReplyDispatcher(to, atOptions, mentionIds))
                           ELSE Undef]
    /\ plan = [p \in Handlers |-> Undef]
    /\ calls = [p \in Handlers |-> NoCalls]
    /\ sends = [p \in Handlers |-> <<>>]
    /\ probe = Undef
    /\ payload = [p \in Handlers |-> Undef]

DeliveringLong ==
    \E p \in Workers :
        /\ pc[p] = "dispatching" /\ calls[p].deliver < MaxDelivers
        /\ \E text \in DeliverTexts : Deliver(p, text)

NextDeliver ==
    \/ DeliveringLong
    \/ SendReturning

SpecDeliver == InitDeliver /\ [][NextDeliver]_vars

----------------------------------------------------------------------------
(* A reply that reaches the dispatcher in several blocks: the buffered     *)
(* block dispatcher calls the same deliver once per block                  *)

MaxBlocks == 2
\* blocks: blank, one chunk, one chunk that the prefix makes two
BlockTexts == {<<" ">>, <<"o","k">>, Filler(ChunkLimit)}

DeliveringBlocks ==
    \E p \in Workers :
        /\ pc[p] = "dispatching" /\ calls[p].deliver < MaxBlocks
        /\ \E text \in BlockTexts : Deliver(p, text)

NextBlocks ==
    \/ DeliveringBlocks
    \/ SendReturning

SpecBlocks == InitDeliver /\ [][NextBlocks]_vars

----------------------------------------------------------------------------
(* The follow-up tracker on its own: the two exported functions called     *)
(* directly, as the clock advances                                         *)

\* recordGroupReply(groupId), lines 223-225
RecordGroupReply(groupId) ==
    /\ groupLastReplyMap' = recordGroupReply(groupLastReplyMap, groupId, now)
    /\ UNCHANGED <<now, pc, exit, event, robotName, groupCfg, ctxPayload, dispatcher,
                   plan, calls, sends, probe, payload>>

\* isWithinFollowUpWindow(groupId, windowSeconds), lines 228-232
IsWithinFollowUpWindow(groupId, windowSeconds) ==
    /\ probe' = Some([fn |-> "isWithinFollowUpWindow",
                      groupId |-> groupId,
                      windowSeconds |-> windowSeconds,
                      dateNow |-> now,
                      result |-> isWithinFollowUpWindow(groupLastReplyMap, groupId,
                                                        windowSeconds, now)])
    /\ UNCHANGED <<now, groupLastReplyMap, pc, exit, event, robotName, groupCfg,
                   ctxPayload, dispatcher, plan, calls, sends, payload>>

TrackerGroups == {String(g) : g \in GroupIds}

RecordingReply == \E g \in TrackerGroups : RecordGroupReply(g)
CheckingWindow == \E g \in TrackerGroups, w \in Windows : IsWithinFollowUpWindow(g, w)

NextTracker ==
    \/ Tick
    \/ RecordingReply
    \/ CheckingWindow

SpecTracker == Init /\ [][NextTracker]_vars

----------------------------------------------------------------------------
(* Messages handled concurrently: several invocations of                   *)
(* handleInfoflowMessage are in flight at once and interleave at their     *)
(* awaits; they share groupLastReplyMap and the clock.                     *)

\* a mention-only account with follow-up in a window of one second
ConcurrentAccount ==
    Account(Some(BotName), Undef, Undef, Some("mention-only"), Undef, Some(1), NoGroups)
ConcurrentBodies == {<<TextItem>>, <<AtBot, TextItem>>}
ConcurrentReply == <<"o","k">>

ReceivingConcurrently ==
    \E p \in Handlers :
        /\ pc[p] = "idle"
        /\ \E b \in ConcurrentBodies, g \in GroupIds :
               HandleInfoflowMessage(p, ConcurrentAccount,
                   handleGroupChatMessage(ConcurrentAccount, Some(g), Sender, b))
GatingConcurrently == \E p \in Handlers : Gate(p)
DeliveringConcurrently ==
    \E p \in Handlers :
        /\ pc[p] = "dispatching" /\ calls[p].deliver < MaxDelivers
        /\ Deliver(p, ConcurrentReply)
SendReturningConcurrently == \E p \in Handlers, ok \in BOOLEAN : SendReturn(p, ok)
DispatchReturningConcurrently == \E p \in Handlers : DispatchReturn(p)
SettlingConcurrently == \E p \in Handlers : Settle(p)

NextConcurrent ==
    \/ Tick
    \/ ReceivingConcurrently
    \/ GatingConcurrently
    \/ DeliveringConcurrently
    \/ SendReturningConcurrently
    \/ DispatchReturningConcurrently
    \/ SettlingConcurrently

SpecConcurrent == Init /\ [][NextConcurrent]_vars

----------------------------------------------------------------------------
(* Two accounts served by one process: each invocation resolves its own    *)
(* account (resolveInfoflowAccount, line 428), all of them share            *)
(* groupLastReplyMap.  The second account's bot has another name, so the    *)
(* bodies below never mention it.                                          *)

SecondAccount ==
    Account(Some(<<"B","o">>), Undef, Undef, Some("mention-only"), Undef, Some(1), NoGroups)
AccountOf(p) == IF p = "h1" THEN ConcurrentAccount ELSE SecondAccount

ReceivingPerAccount ==
    \E p \in Handlers :
        /\ pc[p] = "idle"
        /\ \E b \in ConcurrentBodies, g \in GroupIds :
               HandleInfoflowMessage(p, AccountOf(p),
                   handleGroupChatMessage(AccountOf(p), Some(g), Sender, b))

NextAccounts ==
    \/ Tick
    \/ ReceivingPerAccount
    \/ GatingConcurrently
    \/ DeliveringConcurrently
    \/ SendReturningConcurrently
    \/ DispatchReturningConcurrently
    \/ SettlingConcurrently

SpecAccounts == Init /\ [][NextAccounts]_vars

----------------------------------------------------------------------------
(* The two outbound paths side by side: the reply dispatcher with short    *)
(* replies, and the message action "send" of the channel plugin            *)
(* (infoflowMessageActions.handleAction).                                  *)

\* String.prototype.split(",")
RECURSIVE split(_)
split(s) ==
    IF \A i \in 1..Len(s) : s[i] # "," THEN <<s>>
    ELSE LET c == CHOOSE i \in 1..Len(s) :
                      s[i] = "," /\ \A j \in 1..(i - 1) : s[j] # ","
         IN <<SubSeq(s, 1, c - 1)>> \o split(SubSeq(s, c + 1, Len(s)))

\* Array.prototype.filter(Boolean) on strings
RECURSIVE filterNonEmpty(_)
filterNonEmpty(arr) ==
    IF Len(arr) = 0 THEN <<>>
    ELSE (IF Len(Head(arr)) > 0 THEN <<Head(arr)>> ELSE <<>>) \o filterNonEmpty(Tail(arr))

\* mentionUserIdsRaw.split(",").map((s) => s.trim()).filter(Boolean)
MentionUserIds(mentionUserIdsRaw) ==
    LET parts == split(mentionUserIdsRaw)
    IN filterNonEmpty([i \in 1..Len(parts) |-> trim(parts[i])])

\* the contents handleAction builds for sendInfoflowMessage: at node and
\* text prefix for a group, the text if it is not blank, the media URL as a link
ActionSendContents(to, message, atAll, mentionUserIdsRaw, mediaUrl) ==
    LET isGroup == IsGroupTarget(to)
        userIds == IF Truthy(mentionUserIdsRaw)
                   THEN MentionUserIds(Val(mentionUserIdsRaw)) ELSE <<>>
        atNodes == IF ~isGroup THEN <<>>
                   ELSE IF atAll THEN <<Node("at", <<"a","l","l">>)>>
                   ELSE IF Len(userIds) > 0
                        THEN <<Node("at", join(userIds, <<",">>))>>
                   ELSE <<>>
        messageText ==
                  IF ~isGroup THEN message
                  ELSE IF atAll THEN <<"@","a","l","l"," ">> \o message
                  ELSE IF Len(userIds) > 0
                       THEN join([i \in 1..Len(userIds) |-> <<"@">> \o userIds[i]],
                                 <<" ">>) \o <<" ">> \o message
                  ELSE message
    IN atNodes
       \o (IF ~IsBlank(messageText) THEN <<Node("markdown", messageText)>> ELSE <<>>)
       \o (IF Truthy(mediaUrl) THEN <<Node("link", Val(mediaUrl))>> ELSE <<>>)

\* what handleAction({action: "send", params}) does up to its call of
\* sendInfoflowMessage: it throws when no content node was built, else makes
\* one send call with the contents
ActionSendOutcome(to, message, atAll, mentionUserIdsRaw, mediaUrl) ==
    LET contents == ActionSendContents(to, message, atAll, mentionUserIdsRaw, mediaUrl)
    IN [fn |-> "handleAction",
        to |-> to, message |-> message, atAll |-> atAll,
        mentionUserIds |-> mentionUserIdsRaw, media |-> mediaUrl,
        threw |-> Len(contents) = 0,
        contents |-> contents,
        sendCalls |-> IF Len(contents) = 0 THEN <<>>
                      ELSE <<[to |-> to, contents |-> contents]>>]

\* a group, a user, and a target that only looks like a group
OutboundTargets ==
    {GroupPrefix \o String(CHOOSE g \in GroupIds : \A h \in GroupIds : g <= h),
     Sender,
     GroupPrefix \o <<"1","a">>}
OutboundTexts == {<<>>, MentionText \o <<"o","k">>, CaseText}
MediaUrl == <<"h","t","t","p","s",":","/","/","x","/","a",".","p","n","g">>

InitOutbound ==
    /\ now = StartNow
    /\ groupLastReplyMap = <<>>
    /\ pc = [p \in Handlers |-> IF p \in Workers THEN "dispatching" ELSE "idle"]
    /\ exit = [p \in Handlers |-> ""]
    /\ event = [p \in Handlers |-> Undef]
    /\ robotName = [p \in Handlers |-> Undef]
    /\ groupCfg = [p \in Handlers |-> Undef]
    /\ ctxPayload = [p \in Handlers |-> NoCtx]
    /\ \E to \in OutboundTargets, atOptions \in DeliverAtOptions, mentionIds \in DeliverMentionIds :
          dispatcher = [p \in Handlers |->
                           IF p \in Workers
                           THEN Some(createInfoflowReplyDispatcher(to, atOptions, mentionIds))
                           ELSE Undef]
    /\ plan = [p \in Handlers |-> Undef]
    /\ calls = [p \in Handlers |-> NoCalls]
    /\ sends = [p \in Handlers |-> <<>>]
    /\ probe = Undef
    /\ payload = [p \in Handlers |-> Undef]

\* the mentionUserIds parameter: absent, "al, u1," and ","
MentionUserIdsRaws ==
    {Undef, Some(WatchAl \o <<",", " ">> \o Sender \o <<",">>), Some(<<",">>)}

DeliveringShort ==
    \E p \in Workers :
        /\ pc[p] = "dispatching" /\ calls[p].deliver < MaxDelivers
        /\ \E text \in OutboundTexts : Deliver(p, text)

\* the send actions tried, each with its outcome
ActionSends ==
    {ActionSendOutcome(to, message, atAll, mentionUserIds, media) :
        to \in OutboundTargets, message \in {<<>>, <<"o","k">>}, atAll \in BOOLEAN,
        mentionUserIds \in MentionUserIdsRaws, media \in {Undef, Some(MediaUrl)}}

\* handleAction({action: "send", params})
ActingSend ==
    \E outcome \in ActionSends :
        /\ probe' = Some(outcome)
        /\ UNCHANGED <<now, groupLastReplyMap, pc, exit, event, robotName, groupCfg,
                       ctxPayload, dispatcher, plan, calls, sends, payload>>

NextOutbound ==
    \/ DeliveringShort
    \/ SendReturning
    \/ ActingSend

SpecOutbound == InitOutbound /\ [][NextOutbound]_vars

----------------------------------------------------------------------------
(* The pure functions called directly, as their test suites call them      *)

MaxTextLen == 4
MaxLimit == 3

\* the sequences over S of length n, and of length up to n
RECURSIVE SeqsOfLen(_, _)
SeqsOfLen(S, n) ==
    IF n = 0 THEN {<<>>}
    ELSE {Append(t, x) : t \in SeqsOfLen(S, n - 1), x \in S}
SeqsUpTo(S, n) == UNION {SeqsOfLen(S, k) : k \in 0..n}

TextChars == {"a", "b", " "}
ShortTexts == SeqsUpTo(TextChars, MaxTextLen)

\* core.channel.text.chunkText(text, limit)
ChunkingText ==
    \E text \in ShortTexts, limit \in 1..MaxLimit :
        /\ probe' = Some([fn |-> "chunkText", text |-> text, limit |-> limit,
                          chunks |-> chunkText(text, limit)])
        /\ UNCHANGED <<now, groupLastReplyMap, pc, exit, event, robotName, groupCfg,
                       ctxPayload, dispatcher, plan, calls, sends, payload>>

SpecChunk == Init /\ [][ChunkingText]_vars

MaxItems == 2

\* body items as the tests of checkBotMentioned build them: the three types,
\* with and without a name, names equal to the robot name, equal but for
\* case, shorter, longer, and empty
MentionItems ==
    {Item("TEXT", Some(BotName), Undef, Undef),
     Item("LINK", Some(BotName), Undef, Undef),
     AtName(BotName), AtName(<<"B","O","T">>), AtName(<<"B","o">>),
     AtName(<<"B","o","t","s">>), AtName(<<>>), AtRobot(Undef, 7)}
MentionBodies == SeqsUpTo(MentionItems, MaxItems)
RobotNames == {Undef, Some(<<>>), Some(BotName)}

\* _checkBotMentioned(bodyItems, robotName)
CheckingBotMentioned ==
    \E bodyItems \in MentionBodies, rn \in RobotNames :
        /\ probe' = Some([fn |-> "checkBotMentioned", bodyItems |-> bodyItems,
                          robotName |-> rn,
                          result |-> checkBotMentioned(bodyItems, rn)])
        /\ UNCHANGED <<now, groupLastReplyMap, pc, exit, event, robotName, groupCfg,
                       ctxPayload, dispatcher, plan, calls, sends, payload>>

SpecBotMention == Init /\ [][CheckingBotMentioned]_vars

\* body items as the tests of checkWatchMentioned build them: a TEXT item
\* and AT items whose name, userid or robotid is or is not on a watch list
WatchBo == <<"B","o">>
WatchItems ==
    {Item("TEXT", Some(WatchAl), Undef, Undef),
     AtName(<<"A","L">>),
     AtName(WatchBo),
     AtName(<<"a","l","x">>),
     AtUser(Some(WatchBo), <<"A","L">>),
     AtRobot(Some(<<"A","l">>), 7)}
WatchBodies == SeqsUpTo(WatchItems, MaxItems)
WatchLists == {<<>>, <<WatchAl, WatchBo>>, <<WatchBo, WatchAl>>,
               <<String(7), WatchAl, WatchBo>>}

\* the calls of _checkWatchMentioned tried, each with its result
WatchChecks ==
    {[fn |-> "checkWatchMentioned", bodyItems |-> bodyItems,
      watchMentions |-> watchMentions,
      result |-> checkWatchMentioned(bodyItems, watchMentions)] :
        bodyItems \in WatchBodies, watchMentions \in WatchLists}

\* _checkWatchMentioned(bodyItems, watchMentions)
CheckingWatchMentioned ==
    \E check \in WatchChecks :
        /\ probe' = Some(check)
        /\ UNCHANGED <<now, groupLastReplyMap, pc, exit, event, robotName, groupCfg,
                       ctxPayload, dispatcher, plan, calls, sends, payload>>

SpecWatch == Init /\ [][CheckingWatchMentioned]_vars

\* body items as the tests of extractMentionIds build them: a TEXT item,
\* human items (one named like the bot, two with ids equal but for case),
\* agent items (the bot itself, another agent with the same id, the bot with
\* a userid as well, an agent with the empty name), an AT item without ids
ExtractItems ==
    {Item("TEXT", Undef, Some(Sender), Undef),
     AtUser(Some(<<"A","l">>), <<"A","l">>),
     AtUser(Some(BotName), <<"A","L">>),
     AtRobot(Some(<<"b","o","t">>), 7),
     AtRobot(Some(<<"x">>), 7),
     Item("AT", Some(<<"B","O","T">>), Some(Sender), Some(9)),
     AtName(<<"z","z">>),
     AtRobot(Some(<<>>), 5)}
ExtractBodies == SeqsUpTo(ExtractItems, MaxItems)

\* the calls of _extractMentionIds tried, each with its result
Extractions ==
    {[fn |-> "extractMentionIds", bodyItems |-> bodyItems, robotName |-> rn,
      result |-> extractMentionIds(bodyItems, rn)] :
        bodyItems \in ExtractBodies, rn \in RobotNames}

\* _extractMentionIds(bodyItems, robotName)
ExtractingMentionIds ==
    \E extraction \in Extractions :
        /\ probe' = Some(extraction)
        /\ UNCHANGED <<now, groupLastReplyMap, pc, exit, event, robotName, groupCfg,
                       ctxPayload, dispatcher, plan, calls, sends, payload>>

SpecExtract == Init /\ [][ExtractingMentionIds]_vars

\* account settings and per-group overrides for resolveGroupConfig: every
\* field absent or set, the overrides of the first group absent, or present
\* with every field absent or set (to false, 0 and the empty list as well)
FirstGroup == CHOOSE g \in GroupIds : \A h \in GroupIds : g <= h
ConfigOverrides ==
    {NoGroups} \cup
    {[k \in {String(FirstGroup)} |-> GroupConfig(m, wm, fu, fw, Undef)] :
        m \in {Undef, Some("proactive")},
        wm \in {Undef, Some(<<>>)},
        fu \in {Undef, Some(FALSE)},
        fw \in {Undef, Some(0)}}
ConfigAccounts ==
    {Account(Undef, rm, wm, m, fu, fw, gs) :
        rm \in {Undef, Some(TRUE), Some(FALSE)},
        wm \in {Undef, Some(<<>>), Some(<<WatchAl>>)},
        m \in {Undef, Some("mention-only")},
        fu \in {Undef, Some(TRUE)},
        fw \in {Undef, Some(60)},
        gs \in ConfigOverrides}

\* the calls of resolveGroupConfig tried, each with its result
Resolutions ==
    {[fn |-> "resolveGroupConfig", account |-> account, groupId |-> groupId,
      result |-> resolveGroupConfig(account, groupId)] :
        account \in ConfigAccounts, groupId \in {Undef, Some(FirstGroup)}}

\* resolveGroupConfig(account, groupId)
ResolvingGroupConfig ==
    \E resolution \in Resolutions :
        /\ probe' = Some(resolution)
        /\ UNCHANGED <<now, groupLastReplyMap, pc, exit, event, robotName, groupCfg,
                       ctxPayload, dispatcher, plan, calls, sends, payload>>

SpecConfig == Init /\ [][ResolvingGroupConfig]_vars

----------------------------------------------------------------------------
(* Properties of the reply-mode gating (specification Spec)                *)

\* what a handler invocation holds while its locals are in the state
GroupGated(p) ==
    IsDef(event[p]) /\ Val(event[p]).chatType = "group" /\ IsDef(groupCfg[p])
Mode(p) == Val(groupCfg[p]).replyMode
BotMentioned(p) == IsDef(robotName[p]) /\ Val(event[p]).wasMentioned = Some(TRUE)
GroupKey(p) == String(Val(Val(event[p]).groupId))
FollowUpEnabled(p) == Val(groupCfg[p]).followUp
InsideWindow(p) ==
    /\ IsDef(Val(event[p]).groupId)
    /\ GroupKey(p) \in DOMAIN groupLastReplyMap
    /\ now - groupLastReplyMap[GroupKey(p)] < Val(groupCfg[p]).followUpWindow * MsPerSecond
WatchMatch(p) ==
    IF IsDef(Val(event[p]).bodyItems)
    THEN checkWatchMentioned(Val(Val(event[p]).bodyItems), Val(groupCfg[p]).watchMentions)
    ELSE Undef

\* the policy prompt inside ctxPayload.GroupSystemPrompt: what the gating put
\* there, without the per-group systemPrompt and the separator
IsPolicyPart(x) == x.k \in {"watch", "followUp", "proactive"}
PolicyPrompt(p) ==
    IF IsDef(ctxPayload[p].GroupSystemPrompt)
    THEN SelectSeq(Val(ctxPayload[p].GroupSystemPrompt), IsPolicyPart)
    ELSE <<>>

\* the step in which the handler passes the reply-mode gating
GateStep(p) == pc[p] = "recording" /\ pc'[p] # "recording"
Dispatched(p) == pc[p] = "dispatching" /\ calls[p].dispatch = 1
Skipped(p) == pc[p] = "returned" /\ calls[p].dispatch = 0 /\ calls[p].send = 0

\* C1: in reply mode mention-only a group message is dispatched with no
\* policy prompt when the bot was mentioned; otherwise, when follow-up is
\* enabled and the group is inside its follow-up window, it is dispatched
\* with the (non-empty) follow-up prompt; otherwise it is skipped -- so with
\* follow-up disabled a non-mention message is skipped even inside the window.
C1_MentionOnlyGate ==
    [][\A p \in Handlers :
          GateStep(p) /\ GroupGated(p) /\ Mode(p) = "mention-only" =>
              IF BotMentioned(p)
              THEN Dispatched(p)' /\ PolicyPrompt(p)' = <<>>
              ELSE IF FollowUpEnabled(p) /\ InsideWindow(p)
                   THEN /\ Dispatched(p)'
                        /\ PolicyPrompt(p)' = buildFollowUpPrompt
                        /\ Len(PolicyPrompt(p)') > 0
                   ELSE Skipped(p)']_vars

\* a mention-only message without a bot mention has just been dispatched with
\* the follow-up prompt
C1_Witness ==
    \E p \in Handlers :
        /\ GroupGated(p) /\ Mode(p) = "mention-only" /\ ~BotMentioned(p)
        /\ Dispatched(p) /\ calls[p].deliver = 0
        /\ FollowUpEnabled(p) /\ InsideWindow(p)
        /\ PolicyPrompt(p) = buildFollowUpPrompt

\* C2: in reply mode mention-and-watch the gating checks in strict priority:
\* a bot mention dispatches with no policy prompt; else a watch match
\* dispatches with the watch prompt naming the matched watch entry; else an
\* enabled follow-up inside the window dispatches with the follow-up prompt;
\* else the message is skipped.
C2_MentionAndWatchGate ==
    [][\A p \in Handlers :
          GateStep(p) /\ GroupGated(p) /\ Mode(p) = "mention-and-watch" =>
              IF BotMentioned(p)
              THEN Dispatched(p)' /\ PolicyPrompt(p)' = <<>>
              ELSE IF IsDef(WatchMatch(p))
                   THEN /\ Dispatched(p)'
                        /\ PolicyPrompt(p)' = <<Part("watch", Val(WatchMatch(p)))>>
                        /\ includes(Val(groupCfg[p]).watchMentions, Val(WatchMatch(p)))
              ELSE IF FollowUpEnabled(p) /\ InsideWindow(p)
                   THEN Dispatched(p)' /\ PolicyPrompt(p)' = buildFollowUpPrompt
              ELSE Skipped(p)']_vars

\* a watch match inside an active follow-up window has just been dispatched
\* with the watch prompt
C2_Witness ==
    \E p \in Handlers :
        /\ GroupGated(p) /\ Mode(p) = "mention-and-watch" /\ ~BotMentioned(p)
        /\ IsDef(WatchMatch(p))
        /\ FollowUpEnabled(p) /\ InsideWindow(p)
        /\ Dispatched(p) /\ calls[p].deliver = 0
        /\ PolicyPrompt(p) = <<Part("watch", WatchAl)>>

\* C3: in reply mode proactive a group message is never skipped: it is
\* dispatched with no policy prompt when the bot was mentioned, with the
\* watch prompt when a watch entry matched, and with the proactive prompt
\* otherwise.
C3_ProactiveGate ==
    [][\A p \in Handlers :
          GateStep(p) /\ GroupGated(p) /\ Mode(p) = "proactive" =>
              /\ Dispatched(p)'
              /\ PolicyPrompt(p)' =
                    IF BotMentioned(p) THEN <<>>
                    ELSE IF IsDef(WatchMatch(p))
                         THEN buildWatchMentionPrompt(Val(WatchMatch(p)))
                    ELSE buildProactivePrompt]_vars

\* a proactive message with a watch match and no bot mention has just been
\* dispatched with the watch prompt
C3_Witness ==
    \E p \in Handlers :
        /\ GroupGated(p) /\ Mode(p) = "proactive" /\ ~BotMentioned(p)
        /\ IsDef(WatchMatch(p))
        /\ Dispatched(p) /\ calls[p].deliver = 0
        /\ PolicyPrompt(p) = <<Part("watch", WatchAl)>>

\* the handler has returned from the gating without a dispatch
SkipReturned(p) ==
    pc[p] = "returned" /\ GroupGated(p) /\ calls[p].dispatch = 0 /\ Mode(p) # "record"

\* C4 as stated: whenever the decision is Skip -- reply mode ignore and the
\* skip paths of mention-only and mention-and-watch -- no session write is
\* performed.
C4_SkipNeverWritesSession ==
    \A p \in Handlers :
        SkipReturned(p) /\ Mode(p) \in {"ignore", "mention-only", "mention-and-watch"}
            => calls[p].session = 0

\* C4 amended: a Skip in reply mode ignore performs no session write; on the
\* skip paths of mention-only and mention-and-watch the inbound context was
\* persisted exactly once before the gating, and nothing is dispatched or sent.
C4_SkipSessionWrites ==
    \A p \in Handlers :
        SkipReturned(p) =>
            /\ Mode(p) \in {"ignore", "mention-only", "mention-and-watch"}
            /\ calls[p].dispatch = 0 /\ calls[p].send = 0
            /\ Mode(p) = "ignore" => calls[p].session = 0
            /\ Mode(p) \in {"mention-only", "mention-and-watch"} => calls[p].session = 1

\* a mention-only message was skipped after its session write
C4_Witness ==
    \E p \in Handlers :
        /\ SkipReturned(p) /\ Mode(p) = "mention-only" /\ exit[p] = "mention-only"
        /\ ~BotMentioned(p)
        /\ calls[p].session = 1

\* C5: in reply mode ignore the handling of a group message returns before
\* any external effect: no route resolution, no session write, no dispatch,
\* no send, and the follow-up tracker stays as it was.
C5_IgnoreHasNoEffect ==
    [][\A p \in Handlers :
          /\ pc[p] = "idle" /\ pc'[p] # "idle" /\ GroupGated(p)' /\ Mode(p)' = "ignore"
                => /\ pc'[p] = "returned"
                   /\ calls'[p] = NoCalls
                   /\ sends'[p] = <<>>
                   /\ ~IsDef(dispatcher'[p])
                   /\ groupLastReplyMap' = groupLastReplyMap
          /\ pc[p] = "returned" /\ GroupGated(p) /\ Mode(p) = "ignore"
                => /\ pc'[p] \in {"returned", "idle"}
                   /\ calls'[p] = NoCalls
                   /\ groupLastReplyMap' = groupLastReplyMap]_vars

\* a message that mentions the bot, in a group with a recorded reply, was
\* ignored without a call
C5_Witness ==
    \E p \in Handlers :
        /\ pc[p] = "returned" /\ GroupGated(p) /\ Mode(p) = "ignore"
        /\ BotMentioned(p)
        /\ IsDef(Val(event[p]).groupId)
        /\ GroupKey(p) \in DOMAIN groupLastReplyMap
        /\ calls[p] = NoCalls

\* C6: in reply mode record a group message is persisted to the session
\* exactly once and never dispatched: no prompt, no dispatcher, no send,
\* whatever the bot mention, the watch match and the follow-up window are.
C6_RecordOnly ==
    \A p \in Handlers :
        GroupGated(p) /\ Mode(p) = "record" =>
            /\ pc[p] \in {"recording", "returned"}
            /\ calls[p].session = 1
            /\ calls[p].dispatch = 0 /\ calls[p].deliver = 0 /\ calls[p].send = 0
            /\ sends[p] = <<>>
            /\ ~IsDef(ctxPayload[p].GroupSystemPrompt)
            /\ ~IsDef(dispatcher[p])

\* a record-mode message with a bot mention and a watch match, inside the
\* follow-up window, has returned after its session write
C6_Witness ==
    \E p \in Handlers :
        /\ pc[p] = "returned" /\ exit[p] = "record"
        /\ GroupGated(p) /\ Mode(p) = "record"
        /\ BotMentioned(p) /\ IsDef(WatchMatch(p))
        /\ FollowUpEnabled(p) /\ InsideWindow(p)
        /\ calls[p].session = 1

\* the tracker entry of group g is written in this step
TrackerWritten(g) ==
    /\ g \in DOMAIN groupLastReplyMap'
    /\ g \notin DOMAIN groupLastReplyMap \/ groupLastReplyMap'[g] # groupLastReplyMap[g]

\* C7: the tracker entry of a group is written only after a reply chunk to
\* that group was sent successfully; when the handling of a group message
\* ends without a successful send, the tracker is left as it was.
C7_TrackerOnlyAfterSuccessfulSend ==
    [][/\ \A g \in DOMAIN groupLastReplyMap' :
             TrackerWritten(g) =>
                 \E p \in Handlers :
                     /\ pc[p] = "dispatching" /\ IsDef(event[p])
                     /\ IsDef(Val(event[p]).groupId) /\ GroupKey(p) = g
                     /\ calls[p].sendOk > 0
       /\ \A p \in Handlers :
             pc[p] = "dispatching" /\ pc'[p] = "returned" /\ calls[p].sendOk = 0
                 => groupLastReplyMap' = groupLastReplyMap]_vars

----------------------------------------------------------------------------
(* Properties of the follow-up tracker (specification SpecTracker)         *)

\* C8: isWithinFollowUpWindow is false for a group without a recorded reply;
\* otherwise it is true exactly when now - last < windowSeconds * 1000, so
\* false at exactly windowSeconds * 1000 and later, and always false for a
\* window of 0 seconds.
C8_WindowTest ==
    [][IsDef(probe') /\ probe' # probe /\ Val(probe').fn = "isWithinFollowUpWindow" =>
          LET q == Val(probe')
              recorded == q.groupId \in DOMAIN groupLastReplyMap
              elapsed == now - groupLastReplyMap[q.groupId]
          IN /\ ~recorded => q.result = FALSE
             /\ recorded => (q.result <=> elapsed < q.windowSeconds * 1000)
             /\ recorded /\ elapsed >= q.windowSeconds * 1000 => q.result = FALSE
             /\ q.windowSeconds = 0 => q.result = FALSE]_vars

\* the test has just answered false at exactly windowSeconds * 1000
C8_Witness ==
    /\ IsDef(probe) /\ Val(probe).fn = "isWithinFollowUpWindow"
    /\ Val(probe).dateNow = now
    /\ Val(probe).windowSeconds > 0
    /\ Val(probe).groupId \in DOMAIN groupLastReplyMap
    /\ now - groupLastReplyMap[Val(probe).groupId] = Val(probe).windowSeconds * 1000
    /\ Val(probe).result = FALSE

----------------------------------------------------------------------------
(* Properties of the reply dispatcher (specification SpecDeliver)          *)

IsMentionNode(n) == n.type \in {"at", "at-agent"}
HasMentionNode(contents) == \E i \in 1..Len(contents) : IsMentionNode(contents[i])

\* C9: within one deliver call that makes several chunks, mention nodes (at,
\* at-agent) are attached to the send of the first chunk only: the send of
\* every later chunk has exactly one text node and no mention node.
C9_MentionsOnFirstChunkOnly ==
    \A p \in Handlers :
        \A i \in 1..Len(sends[p]) :
            i > 1 => /\ Len(sends[p][i].contents) = 1
                     /\ sends[p][i].contents[1].type = "markdown"
                     /\ ~HasMentionNode(sends[p][i].contents)

\* three chunks were sent, the first with an at node and an at-agent node
C9_Witness ==
    \E p \in Handlers :
        /\ Len(sends[p]) >= 3
        /\ \E i, j \in 1..Len(sends[p][1].contents) :
               /\ sends[p][1].contents[i].type = "at"
               /\ sends[p][1].contents[j].type = "at-agent"
        /\ Len(sends[p][3].contents) = 1

\* C10: a send that fails (ok = false) does not abort deliver: every
\* remaining chunk is still sent, the number of send calls equals the number
\* of chunks whatever the pattern of successes and failures, and deliver
\* returns without raising.
C10_FailedSendDoesNotAbort ==
    [][\A p \in Handlers :
          pc[p] = "sending" /\ (pc'[p] # pc[p] \/ sends'[p] # sends[p]) =>
              LET n == Len(Val(plan[p]).chunks)
              IN /\ Len(sends[p]) <= n
                 /\ sends'[p][Len(sends[p])].result \in {"ok", "failed"}
                 /\ Len(sends[p]) < n =>
                        /\ pc'[p] = "sending"
                        /\ Len(sends'[p]) = Len(sends[p]) + 1
                 /\ Len(sends[p]) = n =>
                        /\ pc'[p] = "dispatching"
                        /\ Len(sends'[p]) = n]_vars

\* deliver has returned after three sends of which the first two failed
C10_Witness ==
    \E p \in Handlers :
        /\ pc[p] = "dispatching" /\ calls[p].deliver = 1
        /\ Len(sends[p]) = 3 /\ calls[p].send = 3
        /\ sends[p][1].result = "failed"
        /\ sends[p][2].result = "failed"
        /\ sends[p][3].result = "ok"

\* the text node of a send call is the last of its contents
TextOf(call) == call.contents[Len(call.contents)].content

\* C11: within one deliver call the chunks are sent one after the other in
\* chunk order: send call i carries chunk i, and the call for chunk i + 1 is
\* made only after the call for chunk i has returned, so at most the last
\* call is pending.
C11_SequentialInChunkOrder ==
    \A p \in Handlers :
        /\ \A i \in 1..Len(sends[p]) :
               sends[p][i].result = "pending" => i = Len(sends[p]) /\ pc[p] = "sending"
        /\ pc[p] = "sending" =>
               /\ Len(sends[p]) = Val(plan[p]).next
               /\ sends[p][Len(sends[p])].result = "pending"
               /\ \A i \in 1..Len(sends[p]) : TextOf(sends[p][i]) = Val(plan[p]).chunks[i]

\* the third of three different chunks is being sent, the first two calls
\* have returned
C11_Witness ==
    \E p \in Handlers :
        /\ pc[p] = "sending" /\ Len(sends[p]) = 3
        /\ sends[p][1].result # "pending" /\ sends[p][2].result # "pending"
        /\ sends[p][3].result = "pending"
        /\ TextOf(sends[p][1]) # TextOf(sends[p][2])
        /\ TextOf(sends[p][2]) # TextOf(sends[p][3])

\* the send call of handler p that is pending returns in this step
SendResolves(p) ==
    /\ pc[p] = "sending"
    /\ Len(sends'[p]) >= Len(sends[p])
    /\ sends[p][Len(sends[p])].result = "pending"
    /\ sends'[p][Len(sends[p])].result # "pending"

\* C12: the status sink is called exactly once for each chunk whose send
\* succeeded and never for a chunk whose send failed, so a deliver call in
\* which every send fails reports nothing.
C12_StatusSinkPerSuccessfulChunk ==
    [][\A p \in Handlers :
          calls'[p].sink - calls[p].sink =
              IF SendResolves(p) /\ sends'[p][Len(sends[p])].result = "ok" THEN 1 ELSE 0]_vars

\* a deliver call of three chunks has returned with one successful send
\* between two failed ones, and one status report
C12_Witness ==
    \E p \in Handlers :
        /\ pc[p] = "dispatching" /\ calls[p].deliver = 1 /\ Len(sends[p]) = 3
        /\ sends[p][1].result = "failed"
        /\ sends[p][2].result = "ok"
        /\ sends[p][3].result = "failed"
        /\ calls[p].sink = 1

\* the text holds nothing but white space
OnlyWhitespace(text) == \A i \in 1..Len(text) : text[i] \in {" ", "\t", "\n"}

\* C13: a deliver call with empty or whitespace-only reply text makes no send
\* call and no status-sink call and returns at once, for every target and
\* every combination of explicit mention options and known mention ids.
C13_BlankTextNoCalls ==
    [][\A p \in Handlers :
          calls'[p].deliver = calls[p].deliver + 1 /\ OnlyWhitespace(Val(payload'[p])) =>
              /\ calls'[p].send = calls[p].send
              /\ calls'[p].sink = calls[p].sink
              /\ sends'[p] = <<>>
              /\ pc'[p] = pc[p]]_vars

\* a whitespace-only reply to a group, with atAll and known mention ids, made
\* no call
C13_Witness ==
    \E p \in Handlers :
        /\ pc[p] = "dispatching" /\ calls[p].deliver = 1
        /\ IsDef(payload[p]) /\ Len(Val(payload[p])) > 0 /\ OnlyWhitespace(Val(payload[p]))
        /\ Val(dispatcher[p]).isGroup
        /\ IsDef(Val(dispatcher[p]).atOptions)
        /\ Val(Val(dispatcher[p]).atOptions).atAll = Some(TRUE)
        /\ DOMAIN Val(dispatcher[p]).mentionIdMap # {}
        /\ calls[p].send = 0 /\ calls[p].sink = 0 /\ sends[p] = <<>>

\* the ids of an at node's content "id1,id2,..."
RECURSIVE SplitIds(_)
SplitIds(content) ==
    IF \A i \in 1..Len(content) : content[i] # ","
    THEN IF Len(content) = 0 THEN <<>> ELSE <<content>>
    ELSE LET c == Least({i \in 1..Len(content) : content[i] = ","})
         IN <<SubSeq(content, 1, c - 1)>> \o SplitIds(SubSeq(content, c + 1, Len(content)))

AllMarker == <<"a","l","l">>

\* the user ids listed by the at node of a send call, none if it has no at node
\* or the node is the all-marker
AtUserIdsOf(call) ==
    IF \E i \in 1..Len(call.contents) :
           call.contents[i].type = "at" /\ call.contents[i].content # AllMarker
    THEN SplitIds(call.contents[CHOOSE i \in 1..Len(call.contents) :
                                    call.contents[i].type = "at"].content)
    ELSE <<>>

\* C14: the user-id list of the outbound at node is deduplicated ignoring
\* letter case: it never holds two ids that are equal up to case, whether both
\* come from @tokens of the reply text or one is an explicit caller id.
C14_AtUserIdsDistinctIgnoringCase ==
    \A p \in Handlers :
        \A i \in 1..Len(sends[p]) :
            LET ids == AtUserIdsOf(sends[p][i])
            IN \A a, b \in 1..Len(ids) :
                   a # b => toLowerCase(ids[a]) # toLowerCase(ids[b])

\* the nodes of the given type among the contents of a send call
NodesOfType(call, type) == SelectSeq(call.contents, LAMBDA n : n.type = type)

\* the first Len(part) characters of whole are part
StartsWith(whole, part) ==
    Len(part) <= Len(whole) /\ SubSeq(whole, 1, Len(part)) = part

AllPrefixText == <<"@","a","l","l"," ">>

\* the dispatcher of handler p was made for a group with atAll = true
AtAllGroup(p) ==
    /\ IsDef(dispatcher[p]) /\ Val(dispatcher[p]).isGroup
    /\ IsDef(Val(dispatcher[p]).atOptions)
    /\ Val(Val(dispatcher[p]).atOptions).atAll = Some(TRUE)

\* C15: with atAll = true and a group target, at-all takes precedence: the
\* first chunk's at node is exactly the all-marker, the text is prefixed with
\* "@all " and nothing else, and neither the explicit atUserIds nor user ids
\* resolved from the reply text appear in an at node or in the prefix (an
\* at-agent node may still be sent).
C15_AtAllTakesPrecedence ==
    \A p \in Handlers :
        AtAllGroup(p) /\ Len(sends[p]) > 0 =>
            /\ NodesOfType(sends[p][1], "at") = <<Node("at", AllMarker)>>
            /\ sends[p][1].contents[1] = Node("at", AllMarker)
            /\ \A i \in 1..Len(sends[p]) : AtUserIdsOf(sends[p][i]) = <<>>
            /\ StartsWith(AllPrefixText \o Val(payload[p]), TextOf(sends[p][1]))
            /\ Len(TextOf(sends[p][1])) >= Len(AllPrefixText)

\* an at-all reply to a group with explicit ids and resolved ids: the nodes
\* are the all-marker, the agent ids and the text
C15_Witness ==
    \E p \in Handlers :
        /\ AtAllGroup(p)
        /\ Val(Val(dispatcher[p]).atOptions).atUserIds = Some(<<Sender>>)
        /\ Len(sends[p]) > 0
        /\ Val(payload[p]) = MentionText \o <<"o","k">>
        /\ sends[p][1].contents =
              <<Node("at", AllMarker), Node("at-agent", <<"7">>),
                Node("markdown", AllPrefixText \o MentionText \o <<"o","k">>)>>

\* the ids of the @tokens of a text, in order of occurrence
RECURSIVE TokensFrom(_, _)
TokensFrom(text, i) ==
    IF i > Len(text) THEN <<>>
    ELSE LET e == WordEnd(text, i + 1)
         IN <<SubSeq(text, i + 1, e)>> \o TokensFrom(text, NextMention(text, e + 1))
Tokens(text) == TokensFrom(text, NextMention(text, 1))

\* the agent ids listed by the at-agent node of a send call
AtAgentIdsOf(call) ==
    IF NodesOfType(call, "at-agent") = <<>> THEN <<>>
    ELSE SplitIds(NodesOfType(call, "at-agent")[1].content)

\* the token is, ignoring case, a known id of the given type
KnownAs(d, token, type) ==
    /\ toLowerCase(token) \in DOMAIN d.mentionIdMap
    /\ d.mentionIdMap[toLowerCase(token)] = type

FirstIndex(seq, x) == Least({i \in 1..Len(seq) : seq[i] = x})

\* the dispatcher of handler p was made for a group without atAll
PlainGroup(p) ==
    /\ IsDef(dispatcher[p]) /\ Val(dispatcher[p]).isGroup
    /\ ~(IsDef(Val(dispatcher[p]).atOptions)
         /\ Val(Val(dispatcher[p]).atOptions).atAll = Some(TRUE))

ExplicitIds(p) ==
    IF IsDef(Val(dispatcher[p]).atOptions) /\ IsDef(Val(Val(dispatcher[p]).atOptions).atUserIds)
    THEN Val(Val(Val(dispatcher[p]).atOptions).atUserIds)
    ELSE <<>>

\* C16: for a group target (without atAll) the first chunk's at node lists the
\* explicit caller ids in caller order, then every known user id that occurs
\* as an @token of the reply text, in order of first occurrence; the at-agent
\* node lists every known agent id that occurs as an @token; an id that is
\* neither explicit nor (ignoring case) a known id appears in no mention node.
C16_MentionNodesFromExplicitAndKnownIds ==
    \A p \in Handlers :
        PlainGroup(p) /\ Len(sends[p]) > 0 =>
            \A ids \in {AtUserIdsOf(sends[p][1])}, agents \in {AtAgentIdsOf(sends[p][1])},
               toks \in {Tokens(Val(payload[p]))} :
            LET d == Val(dispatcher[p])
                explicit == ExplicitIds(p)
                n == Len(explicit)
            IN /\ StartsWith(ids, explicit)
               /\ \A j \in 1..Len(toks) :
                      KnownAs(d, toks[j], "user") => includes(ids, toks[j])
               /\ \A k \in (n + 1)..Len(ids) :
                      /\ includes(toks, ids[k]) /\ KnownAs(d, ids[k], "user")
                      /\ ~includes(explicit, ids[k])
                      /\ \A l \in (k + 1)..Len(ids) :
                             FirstIndex(toks, ids[k]) < FirstIndex(toks, ids[l])
               /\ \A j \in 1..Len(toks) :
                      KnownAs(d, toks[j], "agent") => includes(agents, toks[j])
               /\ \A k \in 1..Len(agents) :
                      /\ includes(toks, agents[k]) /\ KnownAs(d, agents[k], "agent")
                      /\ \A l \in (k + 1)..Len(agents) : agents[k] # agents[l]

\* explicit id u1, known ids al and u1, reply "@zz @AL @al @U1 @u1 @7.": the
\* at node lists u1, AL, al, U1 and there is no at-agent node
C16_Witness ==
    \E p \in Handlers :
        /\ PlainGroup(p) /\ Len(sends[p]) > 0
        /\ ExplicitIds(p) = <<Sender>>
        /\ Val(payload[p]) = CaseText
        /\ AtUserIdsOf(sends[p][1]) = <<Sender, <<"A","L">>, WatchAl, <<"U","1">>>>
        /\ AtAgentIdsOf(sends[p][1]) = <<>>

\* the texts of the send calls so far, one after the other
RECURSIVE SentText(_, _)
SentText(calls_, n) ==
    IF n = 0 THEN <<>> ELSE SentText(calls_, n - 1) \o TextOf(calls_[n])

\* "@id1 @id2 ... ": each explicit id behind an @, each followed by a space
RECURSIVE ExplicitPrefix(_)
ExplicitPrefix(ids) ==
    IF Len(ids) = 0 THEN <<>>
    ELSE <<"@">> \o Head(ids) \o <<" ">> \o ExplicitPrefix(Tail(ids))

\* the prefix that the explicit caller mentions of handler p's dispatcher ask for
CallerPrefix(p) ==
    IF ~Val(dispatcher[p]).isGroup \/ ~IsDef(Val(dispatcher[p]).atOptions) THEN <<>>
    ELSE IF Val(Val(dispatcher[p]).atOptions).atAll = Some(TRUE) THEN AllPrefixText
    ELSE ExplicitPrefix(ExplicitIds(p))

\* C17: the text prefix of a reply is built from the explicit caller mentions
\* only -- "@all ", or the explicit ids as "@id" joined by spaces with a
\* trailing space; @id tokens resolved from the text add nothing to it, and
\* without explicit mention options the text sent is the reply text unchanged.
C17_PrefixFromExplicitMentionsOnly ==
    \A p \in Handlers :
        IsDef(dispatcher[p]) /\ Len(sends[p]) > 0 =>
            \A sent \in {SentText(sends[p], Len(sends[p]))},
               whole \in {CallerPrefix(p) \o Val(payload[p])} :
                /\ StartsWith(whole, sent)
                /\ pc[p] = "dispatching" => sent = whole
                /\ ~IsDef(Val(dispatcher[p]).atOptions) /\ pc[p] = "dispatching"
                       => sent = Val(payload[p])

\* a reply with resolved @tokens and two explicit ids has been sent with the
\* prefix "@u1 @bo "; the at node lists more ids than the prefix
C17_Witness ==
    \E p \in Handlers :
        /\ PlainGroup(p) /\ pc[p] = "dispatching" /\ Len(sends[p]) > 0
        /\ ExplicitIds(p) = <<Sender, <<"b","o">>>>
        /\ Val(payload[p]) = CaseText
        /\ Len(AtUserIdsOf(sends[p][1])) > 2
        /\ TextOf(sends[p][1]) = <<"@","u","1"," ","@","b","o"," ">> \o CaseText

----------------------------------------------------------------------------
(* Properties of the outbound content for direct targets (SpecOutbound)    *)

\* the target has the form group:<digits>, in any letter case
GroupForm(to) ==
    /\ Len(to) >= 7
    /\ toLowerCase(SubSeq(to, 1, 6)) = <<"g","r","o","u","p",":">>
    /\ \A i \in 7..Len(to) : to[i] \in {"0","1","2","3","4","5","6","7","8","9"}

\* C18: for a target that is not of the form group:<digits> the outbound
\* content does not depend on any mention input: deliver sends only the text
\* node with the reply text, and the send action only the text node (and the
\* link node for media), without at or at-agent node and without prefix,
\* whatever atAll, the explicit user ids and the known mention ids are.
C18_DirectTargetIgnoresMentions ==
    /\ \A p \in Handlers :
           IsDef(dispatcher[p]) /\ ~GroupForm(Val(dispatcher[p]).to) /\ Len(sends[p]) > 0 =>
               /\ \A i \in 1..Len(sends[p]) :
                      /\ Len(sends[p][i].contents) = 1
                      /\ sends[p][i].contents[1].type = "markdown"
                      /\ sends[p][i].to = Val(dispatcher[p]).to
               /\ StartsWith(Val(payload[p]), SentText(sends[p], Len(sends[p])))
               /\ pc[p] = "dispatching" => SentText(sends[p], Len(sends[p])) = Val(payload[p])
    /\ IsDef(probe) /\ Val(probe).fn = "handleAction" /\ ~GroupForm(Val(probe).to)
         /\ ~Val(probe).threw =>
           Val(probe).contents =
               (IF OnlyWhitespace(Val(probe).message) THEN <<>>
                ELSE <<Node("markdown", Val(probe).message)>>)
               \o (IF IsDef(Val(probe).media) THEN <<Node("link", Val(Val(probe).media))>>
                   ELSE <<>>)

\* a reply with @tokens of known ids went to the target "group:1a" of a
\* dispatcher with explicit ids as one text node, and a send action with atAll
\* and user ids to a user sent text and link only
C18_Witness ==
    /\ \E p \in Handlers :
           /\ IsDef(dispatcher[p]) /\ Val(dispatcher[p]).to = GroupPrefix \o <<"1","a">>
           /\ Val(dispatcher[p]).atOptions = Some([atAll |-> Undef, atUserIds |-> Some(<<Sender>>)])
           /\ DOMAIN Val(dispatcher[p]).mentionIdMap # {}
           /\ pc[p] = "dispatching"
           /\ sends[p] = <<[to |-> GroupPrefix \o <<"1","a">>,
                            contents |-> <<Node("markdown", CaseText)>>,
                            result |-> "ok"]>>
    /\ IsDef(probe) /\ Val(probe).fn = "handleAction"
    /\ Val(probe).to = Sender /\ Val(probe).atAll
    /\ Val(probe).mentionUserIds = Some(WatchAl \o <<",", " ">> \o Sender \o <<",">>)
    /\ Val(probe).contents = <<Node("markdown", <<"o","k">>), Node("link", MediaUrl)>>

----------------------------------------------------------------------------
(* Properties of chunking (specification SpecChunk)                        *)

RECURSIVE Concat(_)
Concat(seqs) == IF Len(seqs) = 0 THEN <<>> ELSE Head(seqs) \o Concat(Tail(seqs))

\* C19: chunking loses nothing and respects the limit: the chunks put
\* together in order are the text, every chunk has at most limit characters,
\* and a text no longer than the limit gives exactly one chunk, the text.
C19_ChunkingLosslessAndBounded ==
    IsDef(probe) /\ Val(probe).fn = "chunkText" =>
        LET q == Val(probe)
        IN /\ Concat(q.chunks) = q.text
           /\ \A i \in 1..Len(q.chunks) : Len(q.chunks[i]) <= q.limit
           /\ Len(q.text) <= q.limit => q.chunks = <<q.text>>

\* a text of four characters was cut at limit 3 into a chunk of three and a
\* chunk of one
C19_Witness ==
    /\ IsDef(probe) /\ Val(probe).fn = "chunkText"
    /\ Len(Val(probe).text) = 4 /\ Val(probe).limit = 3
    /\ Len(Val(probe).chunks) = 2
    /\ Len(Val(probe).chunks[1]) = 3 /\ Len(Val(probe).chunks[2]) = 1

----------------------------------------------------------------------------
(* Properties of bot-mention detection (specification SpecBotMention)         *)

\* C20: checkBotMentioned is true exactly when the robot name is non-empty
\* and some AT item of the body has a non-empty name equal to it ignoring
\* case; TEXT and LINK items, AT items without a name, and names that are a
\* part of the robot name or contain it give no match.
C20_BotMentionedIffAtNameEqualsIgnoringCase ==
    IsDef(probe) /\ Val(probe).fn = "checkBotMentioned" =>
        LET q == Val(probe)
            matches(it) == /\ it.type = "AT"
                           /\ IsDef(it.name) /\ Len(Val(it.name)) > 0
                           /\ toLowerCase(Val(it.name)) = toLowerCase(Val(q.robotName))
        IN q.result <=>
              /\ IsDef(q.robotName) /\ Len(Val(q.robotName)) > 0
              /\ \E i \in 1..Len(q.bodyItems) : matches(q.bodyItems[i])

\* a body of a TEXT item carrying the robot name and an AT item named BOT
\* was checked against the robot name Bot, and the bot counts as mentioned
C20_Witness ==
    /\ IsDef(probe) /\ Val(probe).fn = "checkBotMentioned"
    /\ Val(probe).robotName = Some(BotName)
    /\ Val(probe).bodyItems = <<Item("TEXT", Some(BotName), Undef, Undef),
                                AtName(<<"B","O","T">>)>>
    /\ Val(probe).result

----------------------------------------------------------------------------
(* Properties of watch-list matching (specification SpecWatch)             *)

\* the watch-list entries an item matches by userid, by robotid, by name
EqualIgnoringCase(a, b) == toLowerCase(a) = toLowerCase(b)
ByUserid(item, watch) ==
    {k \in 1..Len(watch) : Truthy(item.userid) /\ EqualIgnoringCase(Val(item.userid), watch[k])}
ByRobotid(item, watch) ==
    {k \in 1..Len(watch) : IsDef(item.robotid) /\ NumberOrNull(watch[k]) = item.robotid}
ByName(item, watch) ==
    {k \in 1..Len(watch) : Truthy(item.name) /\ EqualIgnoringCase(Val(item.name), watch[k])}
MatchesWatch(item, watch) ==
    item.type = "AT" /\ (ByUserid(item, watch) \cup ByRobotid(item, watch) \cup ByName(item, watch)) # {}
\* the positions of the body's items that match some watch-list entry
WatchHits(body, watch) == {j \in 1..Len(body) : MatchesWatch(body[j], watch)}

\* C21: checkWatchMentioned returns undefined when the watch list is empty
\* or no AT item matches an entry; otherwise the first AT item of the body
\* that matches any entry decides, and the value returned is an entry of the
\* watch list as configured, one that this item matches.
C21_FirstMatchingItemDecides ==
    IsDef(probe) /\ Val(probe).fn = "checkWatchMentioned" =>
        LET q == Val(probe)
            hits == WatchHits(q.bodyItems, q.watchMentions)
        IN IF Len(q.watchMentions) = 0 \/ hits = {} THEN q.result = Undef
           ELSE LET item == q.bodyItems[Least(hits)]
                IN /\ IsDef(q.result)
                   /\ \E k \in ByUserid(item, q.watchMentions)
                             \cup ByRobotid(item, q.watchMentions)
                             \cup ByName(item, q.watchMentions) :
                          q.watchMentions[k] = Val(q.result)

\* the body mentions Bo and then AL, the watch list is Al, Bo: the result is
\* Bo, the entry of the first item, and a later body item named AL gives Al
C21_Witness ==
    /\ IsDef(probe) /\ Val(probe).fn = "checkWatchMentioned"
    /\ Val(probe).bodyItems = <<AtName(WatchBo), AtName(<<"A","L">>)>>
    /\ Val(probe).watchMentions = <<WatchAl, WatchBo>>
    /\ Val(probe).result = Some(WatchBo)

\* C22: within one AT item userid is tried before robotid and robotid
\* before the name: the result for the deciding item is the entry its userid
\* matches if there is one, else the entry its robotid matches if there is
\* one, else the entry its name matches.
C22_UseridThenRobotidThenName ==
    IsDef(probe) /\ Val(probe).fn = "checkWatchMentioned"
      /\ WatchHits(Val(probe).bodyItems, Val(probe).watchMentions) # {} =>
        LET q == Val(probe)
            item == q.bodyItems[Least(WatchHits(q.bodyItems, q.watchMentions))]
            u == ByUserid(item, q.watchMentions)
            r == ByRobotid(item, q.watchMentions)
            n == ByName(item, q.watchMentions)
        IN q.result = Some(q.watchMentions[IF u # {} THEN Least(u)
                                           ELSE IF r # {} THEN Least(r)
                                           ELSE Least(n)])

\* an item with userid AL and name Bo gave Al against the list Al, Bo
C22_Witness ==
    /\ IsDef(probe) /\ Val(probe).fn = "checkWatchMentioned"
    /\ Val(probe).bodyItems = <<AtUser(Some(WatchBo), <<"A","L">>)>>
    /\ Val(probe).watchMentions = <<WatchBo, WatchAl>>
    /\ Val(probe).result = Some(WatchAl)

----------------------------------------------------------------------------
(* Properties of extractMentionIds (specification SpecExtract)             *)

\* an AT item read as an agent; as a human (userid, no robotid)
AgentItem(it) == it.type = "AT" /\ IsDef(it.robotid)
HumanItem(it) == it.type = "AT" /\ ~IsDef(it.robotid) /\ Truthy(it.userid)
\* the agent item is the bot itself under the non-empty name botName
NamedLike(it, botName) ==
    IsDef(botName) /\ IsDef(it.name) /\ EqualIgnoringCase(Val(it.name), Val(botName))
BotItself(it, botName) == AgentItem(it) /\ Truthy(botName) /\ NamedLike(it, botName)

\* C23: the lists extractMentionIds returns have no duplicates and are in
\* order of first occurrence: no two userIds are equal ignoring case, each is
\* written as in the first human item of the body that carries it, these
\* first items are in body order; each agent id occurs once, in the order of
\* the first agent items that contribute it; a body without AT items, or
\* with AT items that have neither id, gives two empty lists for any bot name.
C23_MentionIdsDistinctInFirstOccurrenceOrder ==
    IsDef(probe) /\ Val(probe).fn = "extractMentionIds" =>
        LET q == Val(probe)
            body == q.bodyItems
            userIds == q.result.userIds
            agentIds == q.result.agentIds
            firstUser(k) == Least({j \in 1..Len(body) :
                                HumanItem(body[j])
                                /\ EqualIgnoringCase(Val(body[j].userid), userIds[k])})
            firstAgent(k) == Least({j \in 1..Len(body) :
                                AgentItem(body[j]) /\ ~BotItself(body[j], q.robotName)
                                /\ Val(body[j].robotid) = agentIds[k]})
        IN /\ \A k, m \in 1..Len(userIds) :
                  k < m => /\ ~EqualIgnoringCase(userIds[k], userIds[m])
                           /\ firstUser(k) < firstUser(m)
           /\ \A k \in 1..Len(userIds) :
                  /\ \E j \in 1..Len(body) :
                         HumanItem(body[j]) /\ Val(body[j].userid) = userIds[k]
                  /\ Val(body[firstUser(k)].userid) = userIds[k]
           /\ \A k \in 1..Len(agentIds) :
                  \E j \in 1..Len(body) :
                      AgentItem(body[j]) /\ Val(body[j].robotid) = agentIds[k]
                      /\ ~BotItself(body[j], q.robotName)
           /\ \A k, m \in 1..Len(agentIds) :
                  k < m => agentIds[k] # agentIds[m] /\ firstAgent(k) < firstAgent(m)
           /\ (\A j \in 1..Len(body) :
                  body[j].type # "AT" \/ (~IsDef(body[j].robotid) /\ ~Truthy(body[j].userid)))
              => userIds = <<>> /\ agentIds = <<>>

\* the body mentions the users AL and then Al: userIds is AL alone
C23_Witness ==
    /\ IsDef(probe) /\ Val(probe).fn = "extractMentionIds"
    /\ Val(probe).bodyItems = <<AtUser(Some(BotName), <<"A","L">>),
                                AtUser(Some(<<"A","l">>), <<"A","l">>)>>
    /\ Val(probe).result = [userIds |-> <<(<<"A","L">>)>>, agentIds |-> <<>>]

\* C24 as stated: the agent ids returned are those of the agent items not
\* named like botName, the user ids those of the human items, whatever their
\* name; an agent item named like botName gives neither.
C24_AsStated ==
    IsDef(probe) /\ Val(probe).fn = "extractMentionIds" =>
        LET q == Val(probe)
            body == q.bodyItems
        IN /\ {q.result.agentIds[k] : k \in 1..Len(q.result.agentIds)} =
                  {Val(body[j].robotid) : j \in {i \in 1..Len(body) :
                        AgentItem(body[i]) /\ ~NamedLike(body[i], q.robotName)}}
           /\ {toLowerCase(q.result.userIds[k]) : k \in 1..Len(q.result.userIds)} =
                  {toLowerCase(Val(body[j].userid)) : j \in {i \in 1..Len(body) :
                        HumanItem(body[i])}}

\* C24: with a non-empty botName, extractMentionIds leaves out the bot
\* itself: the agent ids returned are those of the agent items whose name is
\* not botName ignoring case, the user ids those of the human items whatever
\* their name; an agent item named botName gives neither, with a userid or
\* not.  With an empty or absent botName no agent item is left out.
C24_BotItselfExcluded ==
    IsDef(probe) /\ Val(probe).fn = "extractMentionIds" =>
        LET q == Val(probe)
            body == q.bodyItems
        IN /\ {q.result.agentIds[k] : k \in 1..Len(q.result.agentIds)} =
                  {Val(body[j].robotid) : j \in {i \in 1..Len(body) :
                        AgentItem(body[i]) /\ ~BotItself(body[i], q.robotName)}}
           /\ {toLowerCase(q.result.userIds[k]) : k \in 1..Len(q.result.userIds)} =
                  {toLowerCase(Val(body[j].userid)) : j \in {i \in 1..Len(body) :
                        HumanItem(body[i])}}

\* against the name Bot, the agent item BOT with userid u1 and the human
\* item named Bot with userid AL give the user id AL and no agent id
C24_Witness ==
    /\ IsDef(probe) /\ Val(probe).fn = "extractMentionIds"
    /\ Val(probe).robotName = Some(BotName)
    /\ Val(probe).bodyItems = <<Item("AT", Some(<<"B","O","T">>), Some(Sender), Some(9)),
                                AtUser(Some(BotName), <<"A","L">>)>>
    /\ Val(probe).result = [userIds |-> <<(<<"A","L">>)>>, agentIds |-> <<>>]

----------------------------------------------------------------------------
(* Properties of the group configuration (specification SpecConfig)        *)

\* the overrides that apply to a call, if the account has some for the group
OverridesOf(q) ==
    IF IsDef(q.groupId) /\ String(Val(q.groupId)) \in DOMAIN q.account.groups
    THEN Some(q.account.groups[String(Val(q.groupId))]) ELSE Undef
\* the group's value of a field if it is present, else the account's if it
\* is present, else the default
Precedence(q, field, default) ==
    IF IsDef(OverridesOf(q)) /\ IsDef(Val(OverridesOf(q))[field])
    THEN Val(Val(OverridesOf(q))[field])
    ELSE IF IsDef(q.account[field]) THEN Val(q.account[field])
    ELSE default
\* the mode the legacy settings stand for
LegacyMode(account) ==
    IF account.requireMention = Some(FALSE) THEN "proactive"
    ELSE IF IsDef(account.watchMentions) /\ Val(account.watchMentions) # <<>>
         THEN "mention-and-watch"
    ELSE "mention-only"

\* C25: resolveGroupConfig resolves every field on its own: the group's
\* value if present (false, 0 and the empty watch list too), else the
\* account's, else the default: the legacy-inferred mode, true, 300 seconds,
\* the empty watch list.
C25_GroupThenAccountThenDefault ==
    IsDef(probe) /\ Val(probe).fn = "resolveGroupConfig" =>
        LET q == Val(probe)
        IN /\ q.result.replyMode = Precedence(q, "replyMode", LegacyMode(q.account))
           /\ q.result.followUp = Precedence(q, "followUp", TRUE)
           /\ q.result.followUpWindow = Precedence(q, "followUpWindow", 300)
           /\ q.result.watchMentions = Precedence(q, "watchMentions", <<>>)

\* the group sets followUp false, window 0 and the empty watch list, the
\* account true, 60 and a watch list: the group's values are the result,
\* while the mode, which the group leaves open, is the account's
C25_Witness ==
    /\ IsDef(probe) /\ Val(probe).fn = "resolveGroupConfig"
    /\ Val(probe).groupId = Some(FirstGroup)
    /\ Val(probe).account.followUp = Some(TRUE)
    /\ Val(probe).account.followUpWindow = Some(60)
    /\ Val(probe).account.watchMentions = Some(<<WatchAl>>)
    /\ Val(probe).account.replyMode = Some("mention-only")
    /\ IsDef(OverridesOf(Val(probe)))
    /\ Val(OverridesOf(Val(probe))).replyMode = Undef
    /\ Val(probe).result = [replyMode |-> "mention-only", followUp |-> FALSE,
                            followUpWindow |-> 0, watchMentions |-> <<>>,
                            systemPrompt |-> Undef]

\* C26: when neither the group nor the account sets a reply mode the mode
\* is inferred from the legacy settings: proactive iff requireMention is
\* explicitly false, whatever the watch list; else mention-and-watch iff the
\* account's watch list is non-empty; else mention-only.  A configured mode
\* is the result whatever the legacy settings are.
C26_LegacyModeInference ==
    IsDef(probe) /\ Val(probe).fn = "resolveGroupConfig" =>
        LET q == Val(probe)
            groupMode == IF IsDef(OverridesOf(q)) THEN Val(OverridesOf(q)).replyMode ELSE Undef
            watched == IsDef(q.account.watchMentions) /\ Len(Val(q.account.watchMentions)) > 0
        IN IF IsDef(groupMode) THEN q.result.replyMode = Val(groupMode)
           ELSE IF IsDef(q.account.replyMode) THEN q.result.replyMode = Val(q.account.replyMode)
           ELSE /\ q.result.replyMode = "proactive" <=> q.account.requireMention = Some(FALSE)
                /\ q.result.replyMode = "mention-and-watch" <=>
                       q.account.requireMention # Some(FALSE) /\ watched
                /\ q.result.replyMode = "mention-only" <=>
                       q.account.requireMention # Some(FALSE) /\ ~watched

\* no mode is configured, requireMention is false and the account watches
\* al: the mode is proactive
C26_Witness ==
    /\ IsDef(probe) /\ Val(probe).fn = "resolveGroupConfig"
    /\ Val(probe).account.replyMode = Undef
    /\ Val(probe).account.groups = NoGroups
    /\ Val(probe).account.requireMention = Some(FALSE)
    /\ Val(probe).account.watchMentions = Some(<<WatchAl>>)
    /\ Val(probe).result.replyMode = "proactive"

----------------------------------------------------------------------------
(* Properties of the per-group prompt and of a missing bot name            *)
(* (specification Spec)                                                    *)

\* the per-group systemPrompt of the message's group, if it has a non-empty one
ExtraOf(p) ==
    IF GroupGated(p) /\ Truthy(Val(groupCfg[p]).systemPrompt)
    THEN Val(groupCfg[p]).systemPrompt ELSE Undef
IsExtraPart(x) == x.k \in {"group", "separator"}

\* C27: when a group message is dispatched and its group has a system
\* prompt, ctxPayload.GroupSystemPrompt is the policy prompt, the separator
\* and the group's prompt, and just the group's prompt when the bot was
\* mentioned (no policy prompt); a message that is skipped or only recorded,
\* one of a group without such a prompt, and a direct message carry none.
C27_GroupPromptAppended ==
    [][\A p \in Handlers :
          GateStep(p) =>
              LET final == ctxPayload'[p].GroupSystemPrompt
              IN IF IsDef(ExtraOf(p)) /\ Dispatched(p)'
                 THEN IF BotMentioned(p)
                      THEN final = ExtraOf(p)
                      ELSE /\ Len(PolicyPrompt(p)') > 0
                           /\ final = Some(PolicyPrompt(p)' \o PromptSeparator
                                           \o Val(ExtraOf(p)))
                 ELSE /\ IsDef(final) => SelectSeq(Val(final), IsExtraPart) = <<>>
                      /\ ~Dispatched(p)' \/ ~GroupGated(p) => ~IsDef(final)]_vars

\* a proactive message without a bot mention, in the group with a system
\* prompt, has just been dispatched with the proactive prompt, the separator
\* and the group's prompt
C27_Witness ==
    \E p \in Handlers :
        /\ IsDef(ExtraOf(p)) /\ ~BotMentioned(p) /\ Mode(p) = "proactive"
        /\ Dispatched(p) /\ calls[p].deliver = 0
        /\ ctxPayload[p].GroupSystemPrompt =
               Some(buildProactivePrompt \o PromptSeparator \o ExtraPrompt)

\* C28: without a configured bot name no message counts as a mention of the
\* bot: a body that @-mentions the bot reaches the handler with wasMentioned
\* false, and a wasMentioned flag that is set is not honoured by the gating,
\* so a mention-only group message outside an active follow-up window is
\* skipped: no dispatch, no dispatcher, no send.
C28_NoBotNameNeverMentioned ==
    [][\A p \in Handlers :
          /\ pc[p] = "idle" /\ pc'[p] # "idle" /\ GroupGated(p)' /\ ~Truthy(robotName'[p])
             /\ (\E i \in 1..Len(Val(Val(event'[p]).bodyItems)) :
                     Val(Val(event'[p]).bodyItems)[i] = AtBot)
                => Val(event'[p]).wasMentioned = Some(FALSE)
          /\ GateStep(p) /\ GroupGated(p) /\ ~Truthy(robotName[p])
             /\ Mode(p) = "mention-only" /\ ~(FollowUpEnabled(p) /\ InsideWindow(p))
                => /\ Skipped(p)'
                   /\ exit'[p] = "mention-only"
                   /\ ~IsDef(dispatcher'[p])
                   /\ sends'[p] = <<>>]_vars

\* a mention-only message flagged as a mention, under an account without a
\* bot name, has been skipped
C28_Witness ==
    \E p \in Handlers :
        /\ GroupGated(p) /\ ~Truthy(robotName[p]) /\ Mode(p) = "mention-only"
        /\ Val(event[p]).wasMentioned = Some(TRUE)
        /\ Skipped(p) /\ exit[p] = "mention-only"

----------------------------------------------------------------------------
(* Properties of the follow-up tracker under concurrent handling           *)
(* (specification SpecConcurrent)                                          *)

\* handler p records a reply for group g in this step: its dispatch has
\* resolved and the handler goes on to recordGroupReply(String(groupId))
RecordsReply(p, g) ==
    /\ pc[p] = "dispatching" /\ pc'[p] = "returned" /\ exit'[p] = "end"
    /\ IsDef(event[p]) /\ Val(event[p]).chatType = "group"
    /\ Val(event[p]).groupId = Some(g)

\* C29: in every step of concurrently handled messages the tracker gets an
\* entry for a group only when a reply is recorded for that group, keeps
\* every entry it has, never lowers a timestamp (a write puts the current
\* time, so the latest write wins), and holds no timestamp later than the
\* current time.
C29_TrackerEntriesOnlyGrow ==
    [][/\ \A k \in DOMAIN groupLastReplyMap' :
              /\ groupLastReplyMap'[k] <= now'
              /\ k \notin DOMAIN groupLastReplyMap \/ groupLastReplyMap'[k] # groupLastReplyMap[k]
                    => /\ \E p \in Handlers, g \in GroupIds : String(g) = k /\ RecordsReply(p, g)
                       /\ groupLastReplyMap'[k] = now
       /\ \A k \in DOMAIN groupLastReplyMap :
              /\ k \in DOMAIN groupLastReplyMap'
              /\ groupLastReplyMap'[k] >= groupLastReplyMap[k]]_vars

\* both groups have an entry, written at different times, the older one
\* before the current time, while one handler has returned from its dispatch
\* and the other is still sending
C29_Witness ==
    /\ DOMAIN groupLastReplyMap = {String(g) : g \in GroupIds}
    /\ \E k, m \in DOMAIN groupLastReplyMap :
           groupLastReplyMap[k] < groupLastReplyMap[m] /\ groupLastReplyMap[m] = now
    /\ \E p, q \in Handlers :
           /\ pc[p] = "returned" /\ exit[p] = "end"
           /\ pc[q] = "sending"

----------------------------------------------------------------------------
(* Properties of the send action (specification SpecOutbound)              *)

\* C30: the send action with an empty message and no media fails with
\* "send requires text or media" and makes no send call, whatever the
\* target, atAll and mentionUserIds are.
C30_NoTextNoMediaThrows ==
    IsDef(probe) /\ Val(probe).fn = "handleAction"
      /\ Val(probe).message = <<>> /\ ~IsDef(Val(probe).media) =>
        /\ Val(probe).threw
        /\ Val(probe).sendCalls = <<>>

----------------------------------------------------------------------------
(* Properties of the gating across modes and messages (specification Spec) *)

\* what reply mode mention-only decides for the message handler p holds:
\* dispatch with no policy prompt on a bot mention, dispatch with the
\* follow-up prompt inside an enabled follow-up window, skip otherwise
MentionOnlyDecision(p) ==
    IF BotMentioned(p) THEN Decision(TRUE, <<>>)
    ELSE IF FollowUpEnabled(p) /\ InsideWindow(p) THEN Decision(TRUE, buildFollowUpPrompt)
    ELSE Decision(FALSE, <<>>)

\* C31: in reply mode mention-and-watch with an empty watch list the gating
\* decides as mention-only does for the same message, bot name and tracker:
\* the watch check yields no match whatever the body mentions, a bot mention
\* dispatches with no policy prompt, an active follow-up window dispatches
\* with the follow-up prompt, and everything else is skipped.
C31_EmptyWatchListAsMentionOnly ==
    [][\A p \in Handlers :
          GateStep(p) /\ GroupGated(p) /\ Mode(p) = "mention-and-watch"
            /\ Val(groupCfg[p]).watchMentions = <<>> =>
              /\ ~IsDef(MatchedWatchId(Val(groupCfg[p]), Val(event[p]).bodyItems))
              /\ Dispatched(p)' = MentionOnlyDecision(p).reply
              /\ Skipped(p)' = ~MentionOnlyDecision(p).reply
              /\ Dispatched(p)' => PolicyPrompt(p)' = MentionOnlyDecision(p).prompt]_vars

\* a message that @-mentions a user and not the bot, in mention-and-watch
\* mode with an empty watch list, has just been dispatched with the
\* follow-up prompt
C31_Witness ==
    \E p \in Handlers :
        /\ GroupGated(p) /\ Mode(p) = "mention-and-watch"
        /\ Val(groupCfg[p]).watchMentions = <<>>
        /\ ~BotMentioned(p)
        /\ Val(event[p]).bodyItems = Some(<<AtWatched, TextItem>>)
        /\ FollowUpEnabled(p) /\ InsideWindow(p)
        /\ Dispatched(p) /\ calls[p].deliver = 0
        /\ PolicyPrompt(p) = buildFollowUpPrompt

\* handler p was admitted through the follow-up window: the gating left the
\* follow-up prompt in its context
AdmittedAsFollowUp(p) ==
    /\ IsDef(event[p]) /\ Val(event[p]).chatType = "group" /\ IsDef(Val(event[p]).groupId)
    /\ PolicyPrompt(p) = buildFollowUpPrompt

Acts(p) == pc'[p] # pc[p] \/ calls'[p] # calls[p]
\* the message handler p holds before or after the step
Handled(p) == IF IsDef(event[p]) THEN Val(event[p]) ELSE Val(event'[p])

\* C33: the follow-up tracker changes only in the step that ends the
\* handling of a dispatched group message, and there only in the entry of
\* that message's group.  Every step of the handling of a direct message,
\* and every step that returns without a dispatch (ignore, record, skip),
\* leaves the tracker of every group as it was.
C33_TrackerFrame ==
    [][/\ groupLastReplyMap' # groupLastReplyMap =>
             \E p \in Handlers, g \in GroupIds :
                 /\ RecordsReply(p, g) /\ calls[p].dispatch = 1
                 /\ DOMAIN groupLastReplyMap' = DOMAIN groupLastReplyMap \cup {String(g)}
                 /\ \A k \in DOMAIN groupLastReplyMap :
                        k # String(g) => groupLastReplyMap'[k] = groupLastReplyMap[k]
       /\ \A p \in Handlers :
             /\ Acts(p) /\ (IsDef(event[p]) \/ IsDef(event'[p]))
                /\ Handled(p).chatType = "direct"
                   => groupLastReplyMap' = groupLastReplyMap
             /\ Acts(p) /\ pc'[p] = "returned" /\ calls'[p].dispatch = 0
                   => /\ exit'[p] \in {"ignore", "record", "mention-only", "mention-and-watch"}
                      /\ groupLastReplyMap' = groupLastReplyMap]_vars

\* the handling of a dispatched group message has ended and stamped its own
\* group, while the other group keeps an older entry
C33_Witness ==
    \E p \in Handlers, g \in GroupIds, h \in GroupIds :
        /\ pc[p] = "returned" /\ exit[p] = "end" /\ calls[p].dispatch = 1
        /\ IsDef(event[p]) /\ Val(event[p]).groupId = Some(g)
        /\ g # h
        /\ {String(g), String(h)} \subseteq DOMAIN groupLastReplyMap
        /\ groupLastReplyMap[String(g)] = now
        /\ groupLastReplyMap[String(h)] < now

----------------------------------------------------------------------------
(* Properties of concurrently handled messages of one group                *)
(* (specification SpecConcurrent)                                          *)

\* handler p is inside the dispatch of a message of group g
InFlight(p, g) ==
    /\ pc[p] \in {"dispatching", "sending"}
    /\ IsDef(event[p]) /\ Val(event[p]).groupId = Some(g)

\* C34: the follow-up window of a group opens when a dispatch for the group
\* completes, not before.  While a message of the group is inside its
\* dispatch, a send that resolves leaves the tracker as it was; and a second
\* message of the same group without a bot mention that reaches the gating
\* meanwhile, with no entry for the group or an expired one, is skipped,
\* however many chunks of the first reply have been sent.
C34_WindowOpensAtCompletion ==
    [][\A p \in Handlers :
          /\ pc[p] = "sending" /\ sends'[p] # sends[p]
                => groupLastReplyMap' = groupLastReplyMap
          /\ \A q \in Handlers \ {p}, g \in GroupIds :
                (/\ InFlight(p, g)
                 /\ GateStep(q) /\ GroupGated(q) /\ Val(event[q]).groupId = Some(g)
                 /\ Mode(q) \in {"mention-only", "mention-and-watch"}
                 /\ ~BotMentioned(q) /\ ~IsDef(WatchMatch(q))
                 /\ ~InsideWindow(q))
                    => /\ Skipped(q)'
                       /\ exit'[q] = Mode(q)
                       /\ ~IsDef(dispatcher'[q])]_vars

\* the second message of a group was skipped while the first, one chunk of
\* its reply sent, is still inside its dispatch and the group has no entry
C34_Witness ==
    \E p \in Handlers, q \in Handlers, g \in GroupIds :
        /\ p # q
        /\ InFlight(p, g) /\ calls[p].sendOk > 0
        /\ String(g) \notin DOMAIN groupLastReplyMap
        /\ GroupGated(q) /\ Val(event[q]).groupId = Some(g)
        /\ ~BotMentioned(q) /\ FollowUpEnabled(q)
        /\ Skipped(q) /\ exit[q] = "mention-only"

----------------------------------------------------------------------------
(* Properties of the tracker across accounts (specification SpecAccounts)  *)

\* C35: the follow-up tracker is one map for the whole process, keyed by the
\* group id alone.  A reply recorded by an invocation for one account stamps
\* the entry of the message's group and of no other group, and from then on
\* the window test is true for that group whichever account asks; a
\* non-mention message handled for any account is admitted exactly when the
\* entry of its own group id is inside the window, whoever recorded it and
\* whatever the entries of other groups are.
C35_TrackerKeyedByGroupAlone ==
    [][/\ \A p \in Handlers, g \in GroupIds :
             RecordsReply(p, g) =>
                 /\ DOMAIN groupLastReplyMap' = DOMAIN groupLastReplyMap \cup {String(g)}
                 /\ groupLastReplyMap'[String(g)] = now
                 /\ \A k \in DOMAIN groupLastReplyMap :
                        k # String(g) => groupLastReplyMap'[k] = groupLastReplyMap[k]
                 /\ \A q \in Handlers :
                        isWithinFollowUpWindow(groupLastReplyMap', String(g),
                            resolveGroupConfig(AccountOf(q), Some(g)).followUpWindow, now)
       /\ \A q \in Handlers :
             (GateStep(q) /\ GroupGated(q) /\ ~BotMentioned(q)) =>
                 /\ robotName[q] = AccountOf(q).robotName
                 /\ Dispatched(q)' = InsideWindow(q)
                 /\ Skipped(q)' = ~InsideWindow(q)]_vars

\* the second account, whose bot no message mentions, has just admitted a
\* message of a group through the follow-up window, while the other group
\* has no entry
C35_Witness ==
    \E g \in GroupIds :
        /\ GroupGated("h2") /\ robotName["h2"] = SecondAccount.robotName
        /\ Val(event["h2"]).groupId = Some(g)
        /\ Dispatched("h2") /\ calls["h2"].deliver = 0
        /\ PolicyPrompt("h2") = buildFollowUpPrompt
        /\ DOMAIN groupLastReplyMap = {String(g)}

----------------------------------------------------------------------------
(* Properties of repeated deliver calls (specification SpecBlocks) and of  *)
(* the prefixed text (specification SpecDeliver)                           *)

\* deliver is called by handler p in this step, with a text that is not blank
DeliverCalled(p) ==
    calls'[p].deliver = calls[p].deliver + 1 /\ ~OnlyWhitespace(Val(payload'[p]))

\* C36: the first-chunk rule holds per deliver call.  Every call of a
\* dispatcher's deliver with a non-blank text, the first as well as a later
\* one, starts with a send whose contents carry the explicit mention again
\* -- the all-marker for atAll, else an at node that begins with the explicit
\* caller ids -- and whose text begins with the prefix of those mentions.
C36_MentionsOncePerDeliverCall ==
    [][\A p \in Handlers :
          DeliverCalled(p) =>
              /\ Len(sends'[p]) = 1
              /\ AtAllGroup(p) =>
                     /\ NodesOfType(sends'[p][1], "at") = <<Node("at", AllMarker)>>
                     /\ StartsWith(TextOf(sends'[p][1]), AllPrefixText)
              /\ PlainGroup(p) /\ Len(ExplicitIds(p)) > 0 =>
                     /\ Len(NodesOfType(sends'[p][1], "at")) = 1
                     /\ StartsWith(AtUserIdsOf(sends'[p][1]), ExplicitIds(p))
                     /\ StartsWith(TextOf(sends'[p][1]), ExplicitPrefix(ExplicitIds(p)))]_vars

\* the second deliver call of a dispatcher with the explicit id u1 has sent
\* its first chunk: at node u1 and the text "@u1 " followed by the reply
C36_Witness ==
    \E p \in Handlers :
        /\ calls[p].deliver = 2 /\ calls[p].send >= 2
        /\ PlainGroup(p) /\ ExplicitIds(p) = <<Sender>>
        /\ Len(sends[p]) > 0
        /\ NodesOfType(sends[p][1], "at") = <<Node("at", Sender)>>
        /\ StartsWith(TextOf(sends[p][1]), <<"@">> \o Sender \o <<" ">>)

\* C37: the prefix is part of the text that is chunked.  Every text node
\* sent by deliver, the first one with the prefix included, has at most
\* ChunkLimit (4000) characters and at least one; and once deliver has
\* returned, the text nodes of its sends put together in send order are the
\* prefix followed by the reply text, nothing lost and nothing repeated.
C37_PrefixedTextChunkedWithinLimit ==
    \A p \in Handlers :
        IsDef(dispatcher[p]) /\ Len(sends[p]) > 0 =>
            /\ \A i \in 1..Len(sends[p]) :
                   /\ Len(TextOf(sends[p][i])) <= ChunkLimit
                   /\ Len(TextOf(sends[p][i])) > 0
                   /\ Len(NodesOfType(sends[p][i], "markdown")) = 1
            /\ StartsWith(CallerPrefix(p) \o Val(payload[p]), TextOf(sends[p][1]))
            /\ pc[p] = "dispatching" =>
                   /\ SentText(sends[p], Len(sends[p])) = CallerPrefix(p) \o Val(payload[p])
                   /\ Len(sends[p]) =
                         (Len(CallerPrefix(p)) + Len(Val(payload[p])) + ChunkLimit - 1)
                             \div ChunkLimit

\* a reply of exactly 4000 characters with the prefix "@u1 " was sent in two
\* text nodes: 4000 characters that begin with the prefix, then the last four
C37_Witness ==
    \E p \in Handlers :
        /\ PlainGroup(p) /\ ExplicitIds(p) = <<Sender>>
        /\ pc[p] = "dispatching" /\ Len(sends[p]) = 2
        /\ Len(Val(payload[p])) = ChunkLimit
        /\ Len(TextOf(sends[p][1])) = ChunkLimit
        /\ StartsWith(TextOf(sends[p][1]), <<"@">> \o Sender \o <<" ">>)
        /\ Len(TextOf(sends[p][2])) = Len(Sender) + 2

\* C38: the mention nodes go with the first chunk whatever becomes of it.
\* When the send of the first chunk of a deliver call has failed, no other
\* send of that call carries an at or at-agent node, so none of the sends
\* that succeeded does; the remaining chunks are sent all the same, as text
\* alone, and deliver returns after one send per chunk.
C38_MentionsLostWithFirstChunk ==
    \A p \in Handlers :
        Len(sends[p]) > 0 /\ sends[p][1].result = "failed" =>
            /\ \A i \in 2..Len(sends[p]) :
                   /\ ~HasMentionNode(sends[p][i].contents)
                   /\ sends[p][i].contents = <<Node("markdown", TextOf(sends[p][i]))>>
            /\ \A i \in 1..Len(sends[p]) :
                   sends[p][i].result = "ok" => ~HasMentionNode(sends[p][i].contents)
            /\ pc[p] = "sending" => Len(sends[p]) = Val(plan[p]).next
            /\ pc[p] = "dispatching" =>
                   SentText(sends[p], Len(sends[p])) = CallerPrefix(p) \o Val(payload[p])

\* a deliver call of three chunks has returned: the first send, with an at
\* node and an at-agent node, failed; the other two went through as text
C38_Witness ==
    \E p \in Handlers :
        /\ pc[p] = "dispatching" /\ Len(sends[p]) = 3
        /\ sends[p][1].result = "failed"
        /\ Len(NodesOfType(sends[p][1], "at")) = 1
        /\ Len(NodesOfType(sends[p][1], "at-agent")) = 1
        /\ sends[p][2].result = "ok" /\ sends[p][3].result = "ok"
        /\ Len(sends[p][2].contents) = 1 /\ Len(sends[p][3].contents) = 1

----------------------------------------------------------------------------
(* Properties of the legacy mode and of the caller mention                  *)
(* (specification Spec)                                                    *)

\* handler p holds a message of the group to which a legacy account leaves
\* the watch list
UnderLegacyWatch(p) ==
    /\ GroupGated(p)
    /\ \E account \in LegacyWatchAccounts :
           /\ IsDef(Val(event[p]).groupId)
           /\ GroupKey(p) \in DOMAIN account.groups
           /\ robotName[p] = account.robotName
           /\ groupCfg[p] = Some(resolveGroupConfig(account, Val(event[p]).groupId))

\* C39: the legacy inference reads the account's watch list only.  Under an
\* account without reply mode, with requireMention not false and no watch
\* list of its own, a group whose override supplies a watch list (and no
\* reply mode) is in mention-only mode with that list as its watch list, and
\* a message that @-mentions a watched identity, without a bot mention and
\* outside an active follow-up window, is skipped.
C39_LegacyModeIgnoresGroupWatchList ==
    [][\A p \in Handlers :
          GateStep(p) /\ UnderLegacyWatch(p) =>
              /\ Mode(p) = "mention-only"
              /\ Val(groupCfg[p]).watchMentions = <<WatchAl>>
              /\ (~BotMentioned(p) /\ IsDef(WatchMatch(p))
                    /\ ~(FollowUpEnabled(p) /\ InsideWindow(p))) =>
                     /\ Skipped(p)'
                     /\ exit'[p] = "mention-only"
                     /\ ~IsDef(dispatcher'[p])
                     /\ ~IsDef(ctxPayload'[p].GroupSystemPrompt)]_vars

\* a message that @-mentions the watched user of its group, under such an
\* account, has been skipped by the mention-only branch
C39_Witness ==
    \E p \in Handlers :
        /\ UnderLegacyWatch(p)
        /\ ~BotMentioned(p) /\ WatchMatch(p) = Some(WatchAl)
        /\ Skipped(p) /\ exit[p] = "mention-only"

\* handler p has passed the gating and made its dispatcher; the locals of
\* the gating are still in place
JustDispatched(p) ==
    IsDef(event[p]) /\ IsDef(dispatcher[p]) /\ pc[p] = "dispatching" /\ calls[p].deliver = 0

====
